---- MODULE Spec2Model ----
(***************************************************************************)
(* Model of the preflight / liquidity-selection / market-order build code  *)
(* of the SOS SDK (src/long/preflight.ts, src/long/remaining-accounts.ts,  *)
(* src/unnamed/part_004, src/short/preflight.ts).                          *)
(*                                                                         *)
(* The ledger (option pool, writer positions, loans, vault, token          *)
(* balances, slot) is external state that changes under the SDK's feet;    *)
(* every SDK call only reads it.                                           *)
(***************************************************************************)
EXTENDS Integers, Sequences, FiniteSets, TLC

VARIABLES
    \* ---- ledger (external, mutable by the on-chain program only) ----
    optionPool,        \* None, or Some([totalAvailable |-> n])
    writerPositions,   \* sequence, in getProgramAccounts order, of the pool's writer positions
    \* ---- buy flow: preflightBuyFromPoolMarketOrder, then the market-order build ----
    pc,                \* position of the client flow
    params,            \* arguments of the calls of the flow
    preflight,         \* result of preflightBuyFromPoolMarketOrder (NoResult, Thrown or the report)
    refetchedPool,     \* build: fetchOptionPool result (part_004:520)
    selectionSnapshot, \* single selection call: the positions it fetched (remaining-accounts.ts:17)
    remainingAccounts, \* build: result of getBuyFromPoolRemainingAccounts (part_004:521)
    recheckSnapshot,   \* build: the positions re-fetched for the coverage assertion (part_004:542)
    buildResult,       \* NoResult, [kind |-> "error", ...] or [kind |-> "tx", ...]
    \* ---- ledger accounts the unwind preflight reads ----
    collateralPoolExists,   \* the option's CollateralPool account exists
    writerPosition,         \* None, or Some(the writer's WriterPosition account)
    vault,                  \* None, or Some([protocolFeeBps |-> n]), the Vault account
    loans,                  \* the maker's PoolLoan accounts, in getProgramAccounts order
    currentSlot,            \* rpc.getSlot()
    collateralVaultBalance, \* token amount of the collateral vault account
    walletBalance,          \* token amount of the writer's repayment account
    \* ---- one call of preflightUnwindWriterUnsold ----
    unwindSnapshot,    \* None, or Some(what the first Promise.all read, preflight.ts:124-130)
    loanBreakdown,     \* the per-loan breakdown built before the balances are read
    unwindResult,      \* NoResult, the error thrown or the report returned
    \* ---- several calls in flight at once ----
    calls              \* the calls in flight: kind, arguments, reads made and result of each

unwindLedgerVars == << collateralPoolExists, writerPosition, vault, loans, currentSlot,
                       collateralVaultBalance, walletBalance >>
unwindVars == << unwindSnapshot, loanBreakdown, unwindResult >>

vars == << optionPool, writerPositions, pc, params, preflight, refetchedPool,
           selectionSnapshot, remainingAccounts, recheckSnapshot, buildResult,
           unwindLedgerVars, unwindVars, calls >>

ledgerVars == << optionPool, writerPositions >>
buyVars == << pc, params, preflight, refetchedPool, selectionSnapshot,
              remainingAccounts, recheckSnapshot, buildResult >>

-----------------------------------------------------------------------------
(* Bounds of the model *)

\* number of writer positions of the pool in the buy-flow specification
MaxPoolPositions == 2
\* longest fetched list the liquidity selection is applied to
MaxSelectPositions == 4

(* Values the inputs are drawn from *)
\* an optional value (undefined / null in the source) is << >> or << v >>
None == << >>
Some(v) == << v >>
NoResult == [kind |-> "none"]

PoolUnsoldValues == {0, 200000, 800000}
PoolTotalValues == {800000, 1000000}
BuyQuantityValues == {0, 900000, 1000000}
QuotedPremiumValues == {0, 50000}
SlippageBufferValues == {None, Some(250000)}
SelectUnsoldValues == {0, 2, 3, 5}
\* the quantity a writer mints in one option_mint
MintQuantity == 200000

-----------------------------------------------------------------------------
(* Helpers over sequences *)

RECURSIVE SumSeq(_)
SumSeq(s) == IF s = << >> THEN 0 ELSE Head(s) + SumSeq(Tail(s))

SeqsUpTo(S, n) == UNION { [1..k -> S] : k \in 0..n }

-----------------------------------------------------------------------------
(* Errors: src/shared/errors.ts, SdkValidationError thrown by invariant() *)
(* and by assertPositiveAmount / assertNonNegativeAmount.                  *)

SdkValidationError(message) ==
    [kind |-> "error", name |-> "SdkValidationError", message |-> message]

MsgQuantityPositive == "quantity must be greater than zero."
MsgQuotedPositive == "quotedPremiumTotal must be greater than zero."
MsgBufferNegative == "slippageBufferBaseUnits cannot be negative."
MsgMaxPremiumPositive == "maxPremiumAmount must be greater than zero."
MsgPoolMustExist == "Option pool must exist; ensure rpc is provided and pool is initialized."
MsgInsufficientWriterLiquidity == "Insufficient active writer liquidity"
ReasonPool == "Pool total_available is less than requested quantity."
ReasonWriters ==
    "Remaining writer-position liquidity is insufficient to fully fill requested quantity."

-----------------------------------------------------------------------------
(* Liquidity selection: getBuyFromPoolRemainingAccounts                    *)

\* mutant: the filter forgets liquidated positions
SelectIsActive_IgnoresLiquidated(p) == ~p.isSettled /\ p.unsoldQty > 0

\* remaining-accounts.ts:25
SelectIsActive(p) == ~p.isSettled /\ ~p.isLiquidated /\ p.unsoldQty > 0

\* mutant: the comparator orders largest first
CompareUnsold_Descending(a, b) ==
    IF a.unsoldQty > b.unsoldQty THEN -1
    ELSE IF a.unsoldQty < b.unsoldQty THEN 1 ELSE 0

\* remaining-accounts.ts:35-39, the comparator handed to Array.prototype.sort
CompareUnsold(a, b) ==
    IF a.unsoldQty < b.unsoldQty THEN -1
    ELSE IF a.unsoldQty > b.unsoldQty THEN 1 ELSE 0

\* Array.prototype.sort is stable: an element goes after the equal ones before it
RECURSIVE InsertSorted(_, _)
InsertSorted(sorted, x) ==
    IF sorted = << >> THEN << x >>
    ELSE IF CompareUnsold(x, Head(sorted)) < 0 THEN << x >> \o sorted
         ELSE << Head(sorted) >> \o InsertSorted(Tail(sorted), x)

RECURSIVE SortPositions(_)
SortPositions(s) ==
    IF s = << >> THEN << >>
    ELSE InsertSorted(SortPositions(SubSeq(s, 1, Len(s) - 1)), s[Len(s)])

\* mutant: the sorted list is cut to its first two entries
GetBuyFromPoolRemainingAccounts_Truncated(positions) ==
    LET activePositions == SelectSeq(positions, SelectIsActive)
        sorted == SortPositions(activePositions)
        kept == IF Len(sorted) > 2 THEN 2 ELSE Len(sorted)
    IN  [i \in 1..kept |-> [address |-> sorted[i].address, isWritable |-> TRUE]]

\* remaining-accounts.ts:12-44 applied to the list fetchWriterPositionsForPool returned
GetBuyFromPoolRemainingAccounts(positions) ==
    LET activePositions == SelectSeq(positions, SelectIsActive)
        sorted == SortPositions(activePositions)
    IN  [i \in 1..Len(sorted) |-> [address |-> sorted[i].address, isWritable |-> TRUE]]

-----------------------------------------------------------------------------
(* Buy preflight: preflightBuyFromPoolMarketOrder, src/long/preflight.ts   *)

\* mutant: the preflight counts settled positions as coverage
PreflightIsActive_IgnoresSettled(p) == ~p.isLiquidated /\ p.unsoldQty > 0

\* preflight.ts:67-69
PreflightIsActive(p) == ~p.isSettled /\ ~p.isLiquidated /\ p.unsoldQty > 0

\* preflight.ts:73-76
PreflightUnsoldAggregate(positions) ==
    LET availableWriterPositions == SelectSeq(positions, PreflightIsActive)
    IN  SumSeq([i \in 1..Len(availableWriterPositions) |->
                    availableWriterPositions[i].unsoldQty])

\* preflight.ts:79
HasPoolLiquidity(poolTotalAvailable, requestedQuantity) ==
    poolTotalAvailable >= requestedQuantity

\* preflight.ts:80
HasWriterCoverage(remainingUnsoldAggregate, requestedQuantity) ==
    remainingUnsoldAggregate >= requestedQuantity

\* mutant: the writer coverage is looked at before the pool aggregate
PreflightReason_WritersFirst(hasPoolLiquidity, hasWriterCoverage) ==
    IF ~hasWriterCoverage THEN ReasonWriters
    ELSE IF ~hasPoolLiquidity THEN ReasonPool
    ELSE "undefined"

\* preflight.ts:82-88
PreflightReason(hasPoolLiquidity, hasWriterCoverage) ==
    IF ~hasPoolLiquidity THEN ReasonPool
    ELSE IF ~hasWriterCoverage THEN ReasonWriters
    ELSE "undefined"

\* preflight.ts:99-115; None when no quotedPremiumTotal is given
PreflightPremium(p) ==
    IF p.quotedPremiumTotal = None THEN None
    ELSE LET quotedPremiumTotal == p.quotedPremiumTotal[1]
             slippageBufferBaseUnits ==
                 IF p.slippageBufferBaseUnits # None
                 THEN p.slippageBufferBaseUnits[1] ELSE 0
         IN  Some([quotedPremiumTotal |-> quotedPremiumTotal,
                   slippageBufferBaseUnits |-> slippageBufferBaseUnits,
                   maxPremiumAmount |-> quotedPremiumTotal + slippageBufferBaseUnits])

\* mutant: a missing option pool is reported as "cannot buy" instead of being thrown
PreflightBuyFromPoolMarketOrder_MissingPoolReport(p, pool, positions) ==
    IF p.quantity <= 0 THEN SdkValidationError(MsgQuantityPositive)
    ELSE [kind |-> "report",
          canBuy |-> FALSE,
          reason |-> ReasonPool,
          poolTotalAvailable |-> 0,
          requestedQuantity |-> p.quantity,
          remainingAccountsCount |-> Len(SelectSeq(positions, PreflightIsActive)),
          remainingUnsoldAggregate |-> PreflightUnsoldAggregate(positions),
          premium |-> None]

\* preflight.ts:41-118: the value the call returns or the error it throws, given
\* what fetchOptionPool and fetchWriterPositionsForPool returned
PreflightBuyFromPoolMarketOrder(p, pool, positions) ==
    IF p.quantity <= 0 THEN SdkValidationError(MsgQuantityPositive)
    ELSE IF pool = None THEN SdkValidationError(MsgPoolMustExist)
    ELSE IF p.quotedPremiumTotal # None /\ p.quotedPremiumTotal[1] <= 0
         THEN SdkValidationError(MsgQuotedPositive)
    ELSE IF p.quotedPremiumTotal # None /\ p.slippageBufferBaseUnits # None
            /\ p.slippageBufferBaseUnits[1] < 0
         THEN SdkValidationError(MsgBufferNegative)
    ELSE LET remainingUnsoldAggregate == PreflightUnsoldAggregate(positions)
             poolTotalAvailable == pool[1].totalAvailable
             hasPoolLiquidity == HasPoolLiquidity(poolTotalAvailable, p.quantity)
             hasWriterCoverage == HasWriterCoverage(remainingUnsoldAggregate, p.quantity)
         IN  [kind |-> "report",
              canBuy |-> hasPoolLiquidity /\ hasWriterCoverage,
              reason |-> PreflightReason(hasPoolLiquidity, hasWriterCoverage),
              poolTotalAvailable |-> poolTotalAvailable,
              requestedQuantity |-> p.quantity,
              remainingAccountsCount |-> Len(SelectSeq(positions, PreflightIsActive)),
              remainingUnsoldAggregate |-> remainingUnsoldAggregate,
              premium |-> PreflightPremium(p)]

-----------------------------------------------------------------------------
(* Market-order build: buildBuyFromPoolMarketOrderTransactionWithDerivation *)
(* src/unnamed/part_004:503-581                                             *)

\* part_004:402
DEFAULT_MARKET_ORDER_SLIPPAGE_BUFFER_BASE_UNITS == 500000

\* mutant: the build-time re-check counts settled positions as coverage
BuildIsActive_IgnoresSettled(p) == ~p.isLiquidated /\ p.unsoldQty > 0

\* part_004:548
BuildIsActive(p) == ~p.isSettled /\ ~p.isLiquidated /\ p.unsoldQty > 0

\* part_004:547-549
ActiveUnsoldTotal(positions) ==
    LET active == SelectSeq(positions, BuildIsActive)
    IN  SumSeq([i \in 1..Len(active) |-> active[i].unsoldQty])

\* mutant: the assertion only asks for some active liquidity
CoverageAssertion_AnyLiquidity(activeUnsoldTotal, quantity) == activeUnsoldTotal > 0

\* part_004:551-555, the condition of the build-time coverage assertion
CoverageAssertion(activeUnsoldTotal, quantity) == activeUnsoldTotal >= quantity

\* part_004:409-436 with slippageBufferLamports not given
NormalizeMarketOrderSlippageBuffer(p) ==
    IF p.slippageBufferBaseUnits # None THEN p.slippageBufferBaseUnits[1]
    ELSE DEFAULT_MARKET_ORDER_SLIPPAGE_BUFFER_BASE_UNITS

\* part_004:506-507, the argument checks made before anything is read
BuildArgumentError(p) ==
    IF p.quantity <= 0 THEN SdkValidationError(MsgQuantityPositive)
    ELSE IF p.quotedPremiumTotal <= 0 THEN SdkValidationError(MsgQuotedPositive)
    ELSE NoResult

\* part_004:547-581: what the build returns or throws once the positions are re-fetched
BuildOutcome(p, accounts, positions) ==
    LET activeUnsoldTotal == ActiveUnsoldTotal(positions)
    IN  IF ~CoverageAssertion(activeUnsoldTotal, p.quantity)
        THEN SdkValidationError(MsgInsufficientWriterLiquidity)
        ELSE IF p.slippageBufferBaseUnits # None /\ p.slippageBufferBaseUnits[1] < 0
        THEN SdkValidationError(MsgBufferNegative)
        ELSE LET maxPremiumAmount ==
                     p.quotedPremiumTotal + NormalizeMarketOrderSlippageBuffer(p)
             IN  IF maxPremiumAmount <= 0 THEN SdkValidationError(MsgMaxPremiumPositive)
                 ELSE [kind |-> "tx",
                       quantity |-> p.quantity,
                       premiumAmount |-> maxPremiumAmount,
                       remainingAccounts |-> accounts]

-----------------------------------------------------------------------------
(* bigint arithmetic.  The amounts are JavaScript bigints (arbitrary       *)
(* precision); products such as principal * rateBps * slotsElapsed exceed  *)
(* 32 bits, so a bigint is a sequence of decimal digits, least significant *)
(* first, without leading zeros (0 is the empty sequence).                 *)

RECURSIVE BigOf(_)
BigOf(n) == IF n = 0 THEN << >> ELSE << n % 10 >> \o BigOf(n \div 10)

RECURSIVE BigToInt(_)
BigToInt(a) == IF a = << >> THEN 0 ELSE Head(a) + 10 * BigToInt(Tail(a))

RECURSIVE BigMulCarry(_, _, _)
BigMulCarry(a, m, carry) ==
    IF a = << >> THEN BigOf(carry)
    ELSE LET cur == Head(a) * m + carry
         IN  << cur % 10 >> \o BigMulCarry(Tail(a), m, cur \div 10)

\* a * m for a bigint a and 0 <= m < 2^27
BigMul(a, m) == IF m = 0 THEN << >> ELSE BigMulCarry(a, m, 0)

RECURSIVE BigNormalize(_)
BigNormalize(a) ==
    IF a = << >> THEN << >>
    ELSE IF a[Len(a)] = 0 THEN BigNormalize(SubSeq(a, 1, Len(a) - 1))
    ELSE a

\* long division, most significant digit first: [q |-> digits of a / d, r |-> a % d]
RECURSIVE BigDivRem(_, _)
BigDivRem(a, d) ==
    IF a = << >> THEN [q |-> << >>, r |-> 0]
    ELSE LET hi == BigDivRem(Tail(a), d)
             cur == hi.r * 10 + Head(a)
         IN  [q |-> << cur \div d >> \o hi.q, r |-> cur % d]

\* a / d as the bigint operator / computes it (truncation = floor, operands >= 0),
\* for 0 < d < 2^27
BigDiv(a, d) == BigNormalize(BigDivRem(a, d).q)

-----------------------------------------------------------------------------
(* Unwind preflight: preflightUnwindWriterUnsold, src/short/preflight.ts   *)

\* preflight.ts:11
BPS_DENOMINATOR == 10000
\* preflight.ts:201
slotsPerYear == 63072000
\* list.ts:28
ACTIVE_POOL_LOAN_STATUS == 1

MsgUnwindPoolState == "Option/collateral pool state is required for unwind preflight."
MsgUnwindWriterPosition == "Writer position is required for unwind preflight."
MsgUnwindCollateralPool == "Collateral pool is required for unwind preflight."
MsgUnwindVault == "Vault state is required for unwind preflight."
ReasonUnwindQtyPositive == "unwindQty must be > 0"
ReasonUnwindQtyExceeds == "unwindQty exceeds writer unsold quantity"
ReasonInsufficientFunds == "Insufficient combined collateral vault + writer fallback funds"

\* list.ts:124-136: the maker's loan accounts, filtered to the active status
FetchPoolLoansByMaker(ledgerLoans) ==
    SelectSeq(ledgerLoans, LAMBDA l : l.status = ACTIVE_POOL_LOAN_STATUS)

\* mutant: the loop does not compare the loan's vault with the derived vault address
LoanIncluded_IgnoresVault(loan) == loan.status = 1

\* preflight.ts:205: the loop skips a loan of another vault or of a status other than 1
LoanIncluded(loan) == ~(loan.vault # "vaultPda" \/ loan.status # 1)

\* mutant: the elapsed time is the distance between the two slots, whichever is later
SlotsElapsed_Absolute(slotNow, lastUpdateSlot) ==
    IF slotNow > lastUpdateSlot THEN slotNow - lastUpdateSlot ELSE lastUpdateSlot - slotNow

\* mutant: the operands of the comparison and of the subtraction are exchanged
SlotsElapsed_Reversed(slotNow, lastUpdateSlot) ==
    IF lastUpdateSlot > slotNow THEN lastUpdateSlot - slotNow ELSE 0

\* mutant: the elapsed time is counted from slot 0, not from the loan's last update
SlotsElapsed_FromZero(slotNow, lastUpdateSlot) == slotNow

\* preflight.ts:211
SlotsElapsed(slotNow, lastUpdateSlot) ==
    IF slotNow > lastUpdateSlot THEN slotNow - lastUpdateSlot ELSE 0

\* mutant: the last division rounds up instead of down
NewlyAccrued_RoundsUp(principal, bps, slotsElapsed) ==
    IF slotsElapsed > 0
    THEN LET perYear == BigDivRem(BigDiv(BigMul(BigMul(BigOf(principal), bps),
                                                slotsElapsed),
                                         BPS_DENOMINATOR),
                                  slotsPerYear)
         IN  BigToInt(BigNormalize(perYear.q)) + (IF perYear.r > 0 THEN 1 ELSE 0)
    ELSE 0

\* preflight.ts:212-217: (principal * bps * slotsElapsed) / BPS_DENOMINATOR / slotsPerYear
NewlyAccrued(principal, bps, slotsElapsed) ==
    IF slotsElapsed > 0
    THEN BigToInt(BigDiv(BigDiv(BigMul(BigMul(BigOf(principal), bps), slotsElapsed),
                                BPS_DENOMINATOR),
                         slotsPerYear))
    ELSE 0

\* preflight.ts:206-232: one entry of loanBreakdown
LoanBreakdownEntry(loan, protocolFeeBps, slotNow) ==
    LET slotsElapsed == SlotsElapsed(slotNow, loan.lastUpdateSlot)
        newlyAccruedInterest == NewlyAccrued(loan.principal, loan.rateBps, slotsElapsed)
        newlyAccruedProtocolFees == NewlyAccrued(loan.principal, protocolFeeBps, slotsElapsed)
        totalInterest == loan.accruedInterest + newlyAccruedInterest
        totalProtocolFees == loan.accruedProtocolFees + newlyAccruedProtocolFees
    IN  [loanAddress |-> loan.address,
         principal |-> loan.principal,
         accruedInterest |-> loan.accruedInterest,
         accruedProtocolFees |-> loan.accruedProtocolFees,
         newlyAccruedInterest |-> newlyAccruedInterest,
         newlyAccruedProtocolFees |-> newlyAccruedProtocolFees,
         totalInterest |-> totalInterest,
         totalProtocolFees |-> totalProtocolFees,
         totalOwed |-> loan.principal + totalInterest + totalProtocolFees]

\* preflight.ts:204-233
LoanBreakdown(fetchedLoans, protocolFeeBps, slotNow) ==
    LET included == SelectSeq(fetchedLoans, LoanIncluded)
    IN  [i \in 1..Len(included) |->
            LoanBreakdownEntry(included[i], protocolFeeBps, slotNow)]

\* mutant: the owed total adds up the principals only
Totals_OwedFromPrincipal(breakdown) ==
    [principal |-> SumSeq([i \in 1..Len(breakdown) |-> breakdown[i].principal]),
     interest |-> SumSeq([i \in 1..Len(breakdown) |-> breakdown[i].totalInterest]),
     fees |-> SumSeq([i \in 1..Len(breakdown) |-> breakdown[i].totalProtocolFees]),
     owed |-> SumSeq([i \in 1..Len(breakdown) |-> breakdown[i].principal])]

\* preflight.ts:235-243
Totals(breakdown) ==
    [principal |-> SumSeq([i \in 1..Len(breakdown) |-> breakdown[i].principal]),
     interest |-> SumSeq([i \in 1..Len(breakdown) |-> breakdown[i].totalInterest]),
     fees |-> SumSeq([i \in 1..Len(breakdown) |-> breakdown[i].totalProtocolFees]),
     owed |-> SumSeq([i \in 1..Len(breakdown) |-> breakdown[i].totalOwed])]

\* mutant: the share is prorated through the six-digit unwindRatio of preflight.ts:252
Proportional_ViaRatio(total, unwindQty, writtenQty) ==
    IF writtenQty > 0
    THEN BigToInt(BigDiv(BigMul(BigOf(total),
                                BigToInt(BigDiv(BigMul(BigOf(unwindQty), 1000000),
                                                writtenQty))),
                         1000000))
    ELSE 0

\* mutant: the division is made before the multiplication
Proportional_DivideFirst(total, unwindQty, writtenQty) ==
    IF writtenQty > 0
    THEN BigToInt(BigMul(BigDiv(BigOf(total), writtenQty), unwindQty))
    ELSE 0

\* mutant: with nothing written the whole total is taken as the share
Proportional_ZeroWrittenIsWhole(total, unwindQty, writtenQty) ==
    IF writtenQty > 0
    THEN BigToInt(BigDiv(BigMul(BigOf(total), unwindQty), writtenQty))
    ELSE total

\* preflight.ts:256-258, 263: writtenQty > 0n ? (total * unwindQty) / writtenQty : 0n
Proportional(total, unwindQty, writtenQty) ==
    IF writtenQty > 0
    THEN BigToInt(BigDiv(BigMul(BigOf(total), unwindQty), writtenQty))
    ELSE 0

\* mutant: the subtraction is not clamped at zero
ReturnableCollateral_Unclamped(proportionalCollateralShare, proportionalTotalOwed) ==
    proportionalCollateralShare - proportionalTotalOwed

\* preflight.ts:264-266
ReturnableCollateral(proportionalCollateralShare, proportionalTotalOwed) ==
    IF proportionalCollateralShare > proportionalTotalOwed
    THEN proportionalCollateralShare - proportionalTotalOwed
    ELSE 0

\* mutant: the required fallback draw is not clamped at zero
WalletFallbackRequired_Unclamped(proportionalTotalOwed, collateralVaultAvailable) ==
    proportionalTotalOwed - collateralVaultAvailable

\* preflight.ts:269-270
WalletFallbackRequired(proportionalTotalOwed, collateralVaultAvailable) ==
    IF proportionalTotalOwed > collateralVaultAvailable
    THEN proportionalTotalOwed - collateralVaultAvailable
    ELSE 0

\* mutant: the wallet fallback is left out of the funds available
Shortfall_IgnoresWallet(owed, vaultAvailable, walletAvailable) ==
    IF owed > vaultAvailable THEN owed - vaultAvailable ELSE 0

\* preflight.ts:271-272
Shortfall(proportionalTotalOwed, collateralVaultAvailable, walletFallbackAvailable) ==
    LET totalAvailable == collateralVaultAvailable + walletFallbackAvailable
    IN  IF proportionalTotalOwed > totalAvailable
        THEN proportionalTotalOwed - totalAvailable
        ELSE 0

\* mutant: the reserve is taken as already drawn down by the returnable collateral
CollateralVaultShortfall_Swapped(returnableCollateral, collateralVaultAvailable) ==
    IF collateralVaultAvailable > returnableCollateral
    THEN collateralVaultAvailable - returnableCollateral
    ELSE 0

\* mutant: the reserve's shortfall is the bare difference, not clamped at zero
CollateralVaultShortfall_Unclamped(returnableCollateral, collateralVaultAvailable) ==
    returnableCollateral - collateralVaultAvailable

\* preflight.ts:275-277
CollateralVaultShortfall(returnableCollateral, collateralVaultAvailable) ==
    IF returnableCollateral > collateralVaultAvailable
    THEN returnableCollateral - collateralVaultAvailable
    ELSE 0

\* mutant: the flag is raised without looking at the wallet
NeedsWalletTopUp_IgnoresWallet(collateralVaultShortfall, walletFallbackAvailable) ==
    collateralVaultShortfall > 0

\* preflight.ts:278
NeedsWalletTopUp(collateralVaultShortfall, walletFallbackAvailable) ==
    collateralVaultShortfall > 0 /\ walletFallbackAvailable < collateralVaultShortfall

\* preflight.ts:147-165 and 177-195: the summary of a rejected unwind
ZeroSummary ==
    [activeLoanCount |-> 0, totalPrincipal |-> 0, totalInterest |-> 0,
     totalProtocolFees |-> 0, totalOwed |-> 0, proportionalPrincipal |-> 0,
     proportionalInterest |-> 0, proportionalProtocolFees |-> 0,
     proportionalTotalOwed |-> 0, proportionalCollateralShare |-> 0,
     returnableCollateral |-> 0, collateralVaultAvailable |-> 0,
     walletFallbackAvailable |-> 0, walletFallbackRequired |-> 0, shortfall |-> 0,
     collateralVaultShortfall |-> 0, needsWalletTopUp |-> FALSE]

\* mutant: unwinding the whole unsold quantity is rejected too (>= for >)
UnwindQuantityRejection_AtUnsold(unwindQty, unsoldQty) ==
    IF unwindQty <= 0
    THEN [kind |-> "report", canUnwind |-> FALSE, canRepayFully |-> FALSE,
          reason |-> ReasonUnwindQtyPositive, loans |-> << >>, summary |-> ZeroSummary]
    ELSE IF unwindQty >= unsoldQty
    THEN [kind |-> "report", canUnwind |-> FALSE, canRepayFully |-> FALSE,
          reason |-> ReasonUnwindQtyExceeds, loans |-> << >>, summary |-> ZeroSummary]
    ELSE NoResult

UnwindQuantityRejection_NoUpperLimit(unwindQty, unsoldQty) ==
    IF unwindQty <= 0
    THEN [kind |-> "report", canUnwind |-> FALSE, canRepayFully |-> FALSE,
          reason |-> ReasonUnwindQtyPositive, loans |-> << >>, summary |-> ZeroSummary]
    ELSE NoResult

\* preflight.ts:138-197: the report returned for an invalid unwind quantity,
\* NoResult when the quantity is accepted
UnwindQuantityRejection(unwindQty, unsoldQty) ==
    IF unwindQty <= 0
    THEN [kind |-> "report", canUnwind |-> FALSE, canRepayFully |-> FALSE,
          reason |-> ReasonUnwindQtyPositive, loans |-> << >>, summary |-> ZeroSummary]
    ELSE IF unwindQty > unsoldQty
    THEN [kind |-> "report", canUnwind |-> FALSE, canRepayFully |-> FALSE,
          reason |-> ReasonUnwindQtyExceeds, loans |-> << >>, summary |-> ZeroSummary]
    ELSE NoResult

\* preflight.ts:235-307: the report of an accepted unwind, from the position read in
\* the first batch, the loan breakdown built from that batch and the token balances
\* read after it
UnwindReport(unwindQty, position, breakdown, vaultAvailable, walletAvailable) ==
    LET collateralVaultAvailable == vaultAvailable
        walletFallbackAvailable == walletAvailable
        totals == Totals(breakdown)
        writtenQty == position.writtenQty
        proportionalPrincipal == Proportional(totals.principal, unwindQty, writtenQty)
        proportionalInterest == Proportional(totals.interest, unwindQty, writtenQty)
        proportionalProtocolFees == Proportional(totals.fees, unwindQty, writtenQty)
        proportionalTotalOwed ==
            proportionalPrincipal + proportionalInterest + proportionalProtocolFees
        proportionalCollateralShare ==
            Proportional(position.collateralDeposited, unwindQty, writtenQty)
        returnableCollateral ==
            ReturnableCollateral(proportionalCollateralShare, proportionalTotalOwed)
        walletFallbackRequired ==
            WalletFallbackRequired(proportionalTotalOwed, collateralVaultAvailable)
        shortfall ==
            Shortfall(proportionalTotalOwed, collateralVaultAvailable, walletFallbackAvailable)
        collateralVaultShortfall ==
            CollateralVaultShortfall(returnableCollateral, collateralVaultAvailable)
    IN  [kind |-> "report",
         canUnwind |-> TRUE,
         canRepayFully |-> (shortfall = 0),
         reason |-> IF shortfall = 0 THEN "undefined" ELSE ReasonInsufficientFunds,
         loans |-> breakdown,
         summary |->
            [activeLoanCount |-> Len(breakdown),
             totalPrincipal |-> totals.principal,
             totalInterest |-> totals.interest,
             totalProtocolFees |-> totals.fees,
             totalOwed |-> totals.owed,
             proportionalPrincipal |-> proportionalPrincipal,
             proportionalInterest |-> proportionalInterest,
             proportionalProtocolFees |-> proportionalProtocolFees,
             proportionalTotalOwed |-> proportionalTotalOwed,
             proportionalCollateralShare |-> proportionalCollateralShare,
             returnableCollateral |-> returnableCollateral,
             collateralVaultAvailable |-> collateralVaultAvailable,
             walletFallbackAvailable |-> walletFallbackAvailable,
             walletFallbackRequired |-> walletFallbackRequired,
             shortfall |-> shortfall,
             collateralVaultShortfall |-> collateralVaultShortfall,
             needsWalletTopUp |->
                NeedsWalletTopUp(collateralVaultShortfall, walletFallbackAvailable)]]

-----------------------------------------------------------------------------
(* External ledger updates: the on-chain program settles, liquidates and   *)
(* fills writer positions while a client flow is under way.  A settled or  *)
(* liquidated position stays counted in the pool's total_available         *)
(* (README "Ghost Liquidity", part_000:280).                               *)

FlowUnderWay == pc \in {"preflighted", "build_recheck", "calls_in_flight"}

SettlePosition(i) ==
    /\ FlowUnderWay
    /\ ~writerPositions[i].isSettled
    /\ writerPositions' = [writerPositions EXCEPT ![i].isSettled = TRUE]
    /\ UNCHANGED << calls, optionPool, buyVars, unwindLedgerVars, unwindVars >>

LiquidatePosition(i) ==
    /\ FlowUnderWay
    /\ ~writerPositions[i].isLiquidated
    /\ writerPositions' = [writerPositions EXCEPT ![i].isLiquidated = TRUE]
    /\ UNCHANGED << calls, optionPool, buyVars, unwindLedgerVars, unwindVars >>

\* another buyer's fill takes the whole unsold quantity of position i
FillPosition(i) ==
    /\ FlowUnderWay
    /\ optionPool # None
    /\ ~writerPositions[i].isSettled /\ ~writerPositions[i].isLiquidated
    /\ writerPositions[i].unsoldQty > 0
    /\ optionPool[1].totalAvailable >= writerPositions[i].unsoldQty
    /\ optionPool' = Some([totalAvailable |->
                               optionPool[1].totalAvailable - writerPositions[i].unsoldQty])
    /\ writerPositions' = [writerPositions EXCEPT ![i].unsoldQty = 0]
    /\ UNCHANGED << calls, buyVars, unwindLedgerVars, unwindVars >>

\* a writer mints (writes) MintQuantity more options into the pool through position i
\* while the build is between its two reads of the writer positions; the pool's
\* aggregate stays within the modelled values
MintPosition(i) ==
    /\ pc = "build_recheck"
    /\ optionPool # None
    /\ optionPool[1].totalAvailable + MintQuantity \in PoolTotalValues
    /\ ~writerPositions[i].isSettled /\ ~writerPositions[i].isLiquidated
    /\ writerPositions[i].unsoldQty = 0
    /\ optionPool' = Some([totalAvailable |-> optionPool[1].totalAvailable + MintQuantity])
    /\ writerPositions' = [writerPositions EXCEPT ![i].unsoldQty = MintQuantity]
    /\ UNCHANGED << calls, buyVars, unwindLedgerVars, unwindVars >>

LedgerUpdate ==
    \E i \in 1..Len(writerPositions) :
        SettlePosition(i) \/ LiquidatePosition(i) \/ FillPosition(i) \/ MintPosition(i)

-----------------------------------------------------------------------------
(* The client flow recommended by the README (part_000:282-284):           *)
(* preflightBuyFromPoolMarketOrder, then the market-order build.           *)

PreflightCall(q, quoted, buffer) ==
    /\ pc = "idle"
    /\ params' = [quantity |-> q, quotedPremiumTotal |-> quoted,
                  slippageBufferBaseUnits |-> buffer]
    /\ preflight' = PreflightBuyFromPoolMarketOrder(
                         [params' EXCEPT !.quotedPremiumTotal = Some(quoted)],
                         optionPool, writerPositions)
    /\ pc' = "preflighted"
    /\ UNCHANGED << calls, ledgerVars, refetchedPool, selectionSnapshot, remainingAccounts,
                    recheckSnapshot, buildResult, unwindLedgerVars, unwindVars >>

\* part_004:506-537: argument checks, then Promise.all of fetchOptionPool and
\* getBuyFromPoolRemainingAccounts, then the pool-exists invariant
BuildBegin ==
    /\ pc = "preflighted"
    /\ IF BuildArgumentError(params) # NoResult
       THEN /\ buildResult' = BuildArgumentError(params)
            /\ pc' = "done"
            /\ UNCHANGED << refetchedPool, remainingAccounts >>
       ELSE /\ refetchedPool' = optionPool
            /\ remainingAccounts' = GetBuyFromPoolRemainingAccounts(writerPositions)
            /\ IF optionPool = None
               THEN buildResult' = SdkValidationError(MsgPoolMustExist) /\ pc' = "done"
               ELSE buildResult' = buildResult /\ pc' = "build_recheck"
    /\ UNCHANGED << calls, ledgerVars, params, preflight, selectionSnapshot, recheckSnapshot,
                    unwindLedgerVars, unwindVars >>

\* part_004:541-581: re-fetch of the writer positions, coverage assertion, premium cap
BuildRecheck ==
    /\ pc = "build_recheck"
    /\ recheckSnapshot' = Some(writerPositions)
    /\ buildResult' = BuildOutcome(params, remainingAccounts, writerPositions)
    /\ pc' = "done"
    /\ UNCHANGED << calls, ledgerVars, params, preflight, refetchedPool, selectionSnapshot,
                    remainingAccounts, unwindLedgerVars, unwindVars >>

\* no unwind preflight is part of the buy flow or of a selection call
NoUnwind ==
    /\ collateralPoolExists = FALSE
    /\ writerPosition = None
    /\ vault = None
    /\ loans = << >>
    /\ currentSlot = 0
    /\ collateralVaultBalance = 0
    /\ walletBalance = 0
    /\ unwindSnapshot = None
    /\ loanBreakdown = << >>
    /\ unwindResult = NoResult

PoolPositionLists ==
    { [i \in 1..MaxPoolPositions |->
          [address |-> i, unsoldQty |-> f[i].unsoldQty, isSettled |-> f[i].isSettled,
           isLiquidated |-> f[i].isLiquidated]] :
      f \in [1..MaxPoolPositions ->
                [unsoldQty : PoolUnsoldValues, isSettled : BOOLEAN,
                 isLiquidated : BOOLEAN]] }

FlowIdle ==
    /\ pc = "idle"
    /\ params = NoResult
    /\ preflight = NoResult
    /\ refetchedPool = None
    /\ selectionSnapshot = None
    /\ remainingAccounts = << >>
    /\ recheckSnapshot = None
    /\ buildResult = NoResult
    /\ calls = << >>

Init ==
    /\ optionPool \in {None} \cup { Some(r) : r \in [totalAvailable : PoolTotalValues] }
    /\ writerPositions \in PoolPositionLists
    /\ FlowIdle
    /\ NoUnwind

Next ==
    \/ \E q \in BuyQuantityValues, quoted \in QuotedPremiumValues,
          buffer \in SlippageBufferValues : PreflightCall(q, quoted, buffer)
    \/ BuildBegin
    \/ BuildRecheck
    \/ LedgerUpdate

Spec == Init /\ [][Next]_vars

-----------------------------------------------------------------------------
(* A single call of getBuyFromPoolRemainingAccounts on a fetched list:     *)
(* the specification under which the selection is checked as a function.   *)

SelectPositionData ==
    { r \in [unsoldQty : SelectUnsoldValues, isSettled : BOOLEAN, isLiquidated : BOOLEAN] :
        ~(r.isSettled /\ r.isLiquidated) }

\* the address of a position is its place in the fetched list
WithAddresses(f) ==
    [i \in 1..Len(f) |-> [address |-> i, unsoldQty |-> f[i].unsoldQty,
                          isSettled |-> f[i].isSettled,
                          isLiquidated |-> f[i].isLiquidated]]

SelectPositionLists ==
    { WithAddresses(f) : f \in SeqsUpTo(SelectPositionData, MaxSelectPositions) }

SelectCall ==
    /\ pc = "select_idle"
    /\ selectionSnapshot' = Some(writerPositions)
    /\ remainingAccounts' = GetBuyFromPoolRemainingAccounts(writerPositions)
    /\ pc' = "selected"
    /\ UNCHANGED << calls, ledgerVars, params, preflight, refetchedPool, recheckSnapshot,
                    buildResult, unwindLedgerVars, unwindVars >>

InitSelect ==
    /\ optionPool = None
    /\ writerPositions \in SelectPositionLists
    /\ pc = "select_idle"
    /\ params = NoResult
    /\ preflight = NoResult
    /\ refetchedPool = None
    /\ selectionSnapshot = None
    /\ remainingAccounts = << >>
    /\ recheckSnapshot = None
    /\ buildResult = NoResult
    /\ calls = << >>
    /\ NoUnwind

NextSelect == SelectCall

SpecSelect == InitSelect /\ [][NextSelect]_vars

-----------------------------------------------------------------------------
(* One call of preflightUnwindWriterUnsold, with the ledger changing       *)
(* between its two batches of reads.                                       *)

\* bound: number of PoolLoan accounts the maker owns
MaxLoans == 2

UnwindQtyValues == {-1, 0, 2, 3, 500000, 600000, 600001, 1000000}
SlotValues == {0, 31536001, 63072000}
ProtocolFeeBpsValues == {50}
CollateralVaultBalanceValues == {0, 50000, 700000}
WalletBalanceValues == {0, 171000}

\* the decoder hands over whatever the account holds: the second position has
\* nothing written and yet an unsold quantity (preflight.ts:251 guards this case)
UnwindPositionData ==
    { [writtenQty |-> 3, unsoldQty |-> 2, collateralDeposited |-> 7],
      [writtenQty |-> 0, unsoldQty |-> 2, collateralDeposited |-> 7],
      [writtenQty |-> 1000000, unsoldQty |-> 600000, collateralDeposited |-> 100000],
      [writtenQty |-> 1000000, unsoldQty |-> 1000000, collateralDeposited |-> 1500000] }

UnwindPositions ==
    { [writtenQty |-> d.writtenQty, unsoldQty |-> d.unsoldQty,
       collateralDeposited |-> d.collateralDeposited,
       isSettled |-> FALSE, isLiquidated |-> FALSE] : d \in UnwindPositionData }
    \cup { [writtenQty |-> 1000000, unsoldQty |-> 600000, collateralDeposited |-> 100000,
            isSettled |-> TRUE, isLiquidated |-> FALSE],
           [writtenQty |-> 3, unsoldQty |-> 2, collateralDeposited |-> 7,
            isSettled |-> FALSE, isLiquidated |-> TRUE] }

\* the PoolLoan accounts a maker may own
LoanChoices ==
    << [vault |-> "vaultPda", status |-> 1, principal |-> 400000, rateBps |-> 1000,
        lastUpdateSlot |-> 0, accruedInterest |-> 0, accruedProtocolFees |-> 0],
       [vault |-> "otherVault", status |-> 1, principal |-> 1000000, rateBps |-> 1000,
        lastUpdateSlot |-> 0, accruedInterest |-> 0, accruedProtocolFees |-> 0],
       [vault |-> "vaultPda", status |-> 1, principal |-> 1000000, rateBps |-> 1000,
        lastUpdateSlot |-> 0, accruedInterest |-> 0, accruedProtocolFees |-> 0],
       [vault |-> "vaultPda", status |-> 2, principal |-> 400000, rateBps |-> 1000,
        lastUpdateSlot |-> 0, accruedInterest |-> 0, accruedProtocolFees |-> 0],
       [vault |-> "vaultPda", status |-> 1, principal |-> 333333, rateBps |-> 777,
        lastUpdateSlot |-> 31536000, accruedInterest |-> 11, accruedProtocolFees |-> 5] >>

LoanData == { LoanChoices[k] : k \in 1..Len(LoanChoices) }

\* which of the loans a list holds, each as often as it occurs, in the order above
LoanSelections ==
    { s \in SeqsUpTo(1..Len(LoanChoices), MaxLoans) :
        \A i \in 1..(Len(s) - 1) : s[i] <= s[i + 1] }

\* the maker's lists differ in the accounts they hold; the address of a loan account
\* is its place in the list
LoanLists ==
    { [i \in 1..Len(s) |->
          [address |-> i, vault |-> LoanChoices[s[i]].vault,
           status |-> LoanChoices[s[i]].status,
           principal |-> LoanChoices[s[i]].principal,
           rateBps |-> LoanChoices[s[i]].rateBps,
           lastUpdateSlot |-> LoanChoices[s[i]].lastUpdateSlot,
           accruedInterest |-> LoanChoices[s[i]].accruedInterest,
           accruedProtocolFees |-> LoanChoices[s[i]].accruedProtocolFees]] :
      s \in LoanSelections }

\* preflight.ts:97-134: the error thrown when a required account is missing
\* (resolveOptionAccounts leaves underlyingMint / collateralVault unset when the
\* option pool / collateral pool account is absent), NoResult when all are there
UnwindMissingRecord ==
    IF optionPool = None \/ ~collateralPoolExists THEN SdkValidationError(MsgUnwindPoolState)
    ELSE IF writerPosition = None THEN SdkValidationError(MsgUnwindWriterPosition)
    ELSE IF vault = None THEN SdkValidationError(MsgUnwindVault)
    ELSE NoResult

\* preflight.ts:94-243: resolve, first batch of reads, validation, loan loop
UnwindBegin(q) ==
    /\ pc = "unwind_idle"
    /\ params' = [unwindQty |-> q]
    /\ IF UnwindMissingRecord # NoResult
       THEN /\ unwindResult' = UnwindMissingRecord
            /\ unwindSnapshot' = None
            /\ loanBreakdown' = << >>
            /\ pc' = "unwind_done"
       ELSE /\ unwindSnapshot' = Some([writerPosition |-> writerPosition[1],
                                       vault |-> vault[1],
                                       loans |-> FetchPoolLoansByMaker(loans),
                                       currentSlot |-> currentSlot])
            /\ LET rejection == UnwindQuantityRejection(q, writerPosition[1].unsoldQty)
               IN  IF rejection # NoResult
                   THEN /\ unwindResult' = rejection
                        /\ loanBreakdown' = << >>
                        /\ pc' = "unwind_done"
                   ELSE /\ unwindResult' = unwindResult
                        /\ loanBreakdown' = LoanBreakdown(FetchPoolLoansByMaker(loans),
                                                          vault[1].protocolFeeBps,
                                                          currentSlot)
                        /\ pc' = "unwind_balances"
    /\ UNCHANGED << calls, ledgerVars, unwindLedgerVars, preflight, refetchedPool,
                    selectionSnapshot, remainingAccounts, recheckSnapshot, buildResult >>

\* preflight.ts:245-307: second batch of reads (the two token balances), report
UnwindFinish ==
    /\ pc = "unwind_balances"
    /\ unwindResult' = UnwindReport(params.unwindQty, unwindSnapshot[1].writerPosition,
                                    loanBreakdown, collateralVaultBalance, walletBalance)
    /\ pc' = "unwind_done"
    /\ UNCHANGED << calls, ledgerVars, unwindLedgerVars, params, preflight, refetchedPool,
                    selectionSnapshot, remainingAccounts, recheckSnapshot, buildResult,
                    unwindSnapshot, loanBreakdown >>

\* the slot a transaction lands in: the first one to land after the call has read the
\* slot lands in the next slot, the ones after it in that same slot
LandingSlot ==
    IF pc = "unwind_balances" /\ currentSlot = unwindSnapshot[1].currentSlot
    THEN currentSlot + 1
    ELSE currentSlot

\* another transaction moves tokens in or out of the collateral vault
CollateralVaultMoves(amount) ==
    /\ pc \in {"unwind_balances", "calls_in_flight"}
    /\ amount # collateralVaultBalance
    /\ collateralVaultBalance' = amount
    /\ currentSlot' = LandingSlot
    /\ UNCHANGED << calls, ledgerVars, buyVars, unwindVars, collateralPoolExists,
                    writerPosition, vault, loans, walletBalance >>

\* another transaction moves tokens in or out of the writer's repayment account
WalletMoves(amount) ==
    /\ pc \in {"unwind_balances", "calls_in_flight"}
    /\ amount # walletBalance
    /\ walletBalance' = amount
    /\ currentSlot' = LandingSlot
    /\ UNCHANGED << calls, ledgerVars, buyVars, unwindVars, collateralPoolExists,
                    writerPosition, vault, loans, collateralVaultBalance >>

NoBuyFlow ==
    /\ writerPositions = << >>
    /\ preflight = NoResult
    /\ refetchedPool = None
    /\ selectionSnapshot = None
    /\ remainingAccounts = << >>
    /\ recheckSnapshot = None
    /\ buildResult = NoResult

\* every account is there, amounts vary; the token balances are empty at first and
\* move (CollateralVaultMoves, WalletMoves) before the call reads them
UnwindLedgerComplete ==
    /\ optionPool = Some([totalAvailable |-> 1000000])
    /\ collateralPoolExists = TRUE
    /\ writerPosition \in { Some(p) : p \in UnwindPositions }
    /\ vault \in { Some([protocolFeeBps |-> f]) : f \in ProtocolFeeBpsValues }
    /\ loans \in LoanLists
    /\ currentSlot \in SlotValues
    /\ collateralVaultBalance = 0
    /\ walletBalance = 0

\* some required account is missing
UnwindLedgerIncomplete ==
    /\ optionPool \in {None, Some([totalAvailable |-> 1000000])}
    /\ collateralPoolExists \in BOOLEAN
    /\ writerPosition \in {None, Some([writtenQty |-> 1000000, unsoldQty |-> 600000,
                                       collateralDeposited |-> 100000,
                                       isSettled |-> FALSE, isLiquidated |-> FALSE])}
    /\ vault \in {None} \cup { Some([protocolFeeBps |-> f]) : f \in ProtocolFeeBpsValues }
    /\ (optionPool = None \/ ~collateralPoolExists \/ writerPosition = None \/ vault = None)
    /\ loans = << >>
    /\ currentSlot = 0
    /\ collateralVaultBalance = 0
    /\ walletBalance = 0

InitUnwind ==
    /\ UnwindLedgerComplete \/ UnwindLedgerIncomplete
    /\ pc = "unwind_idle"
    /\ params = NoResult
    /\ NoBuyFlow
    /\ unwindSnapshot = None
    /\ loanBreakdown = << >>
    /\ unwindResult = NoResult
    /\ calls = << >>

NextUnwind ==
    \/ \E q \in UnwindQtyValues : UnwindBegin(q)
    \/ UnwindFinish
    \/ \E amount \in CollateralVaultBalanceValues : CollateralVaultMoves(amount)
    \/ \E amount \in WalletBalanceValues : WalletMoves(amount)

SpecUnwind == InitUnwind /\ [][NextUnwind]_vars

-----------------------------------------------------------------------------
(* The three calls on a ledger where a record they require is absent: the   *)
(* option pool for the buy preflight and the market-order build; the option *)
(* pool, the collateral pool, the writer position or the vault for the      *)
(* unwind preflight.                                                        *)

InitMissingRecord ==
    \/ Init /\ optionPool = None
    \/ InitUnwind /\ UnwindLedgerIncomplete

NextMissingRecord ==
    \/ \E q \in BuyQuantityValues, quoted \in QuotedPremiumValues,
          buffer \in SlippageBufferValues : PreflightCall(q, quoted, buffer)
    \/ BuildBegin
    \/ \E i \in 1..Len(writerPositions) : SettlePosition(i)
    \/ \E i \in 1..Len(writerPositions) : LiquidatePosition(i)
    \/ \E q \in UnwindQtyValues : UnwindBegin(q)

SpecMissingRecord == InitMissingRecord /\ [][NextMissingRecord]_vars

-----------------------------------------------------------------------------
(* Several calls in flight at once, each of a kind of its own choosing:    *)
(* preflightBuyFromPoolMarketOrder, getBuyFromPoolRemainingAccounts or     *)
(* preflightUnwindWriterUnsold, interleaved with each other and with       *)
(* ledger updates.  A call keeps its arguments, what it read and what it   *)
(* computed in its own frame: the source has no module-level mutable       *)
(* state and the calls only read through the rpc they are given.           *)

\* bound: number of calls in flight at once
MaxCalls == 2

CallIds == 1..MaxCalls
ConcurrentBuyQuantityValues == {900000, 1000000}
ConcurrentUnwindQtyValues == {0, 500000}

\* a call that has not started
IdleCall ==
    [kind |-> "none", pc |-> "idle", args |-> NoResult, reads |-> << >>,
     result |-> NoResult]

\* long/preflight.ts:41-118: one call of preflightBuyFromPoolMarketOrder; the
\* quantity is checked before anything is read (line 44)
ConcurrentBuyPreflight(c, q) ==
    /\ pc = "calls_in_flight"
    /\ calls[c].pc = "idle"
    /\ LET args == [quantity |-> q, quotedPremiumTotal |-> None,
                    slippageBufferBaseUnits |-> None]
       IN  calls' = [calls EXCEPT ![c] =
                [kind |-> "buy", pc |-> "done", args |-> args,
                 reads |-> IF q <= 0 THEN << >>
                           ELSE << [optionPool |-> optionPool,
                                    writerPositions |-> writerPositions] >>,
                 result |-> PreflightBuyFromPoolMarketOrder(args, optionPool,
                                                            writerPositions)]]
    /\ UNCHANGED << ledgerVars, buyVars, unwindLedgerVars, unwindVars >>

\* mutant: the fetched list is kept in a cache shared by the calls, and a later
\* call selects from the list an earlier call fetched
ConcurrentSelect_SharedCache(c) ==
    /\ pc = "calls_in_flight"
    /\ calls[c].pc = "idle"
    /\ LET earlier == { d \in CallIds : calls[d].kind = "select" }
           fetched == IF earlier = {} THEN writerPositions
                      ELSE calls[CHOOSE d \in earlier : TRUE].reads[1].writerPositions
       IN  calls' = [calls EXCEPT ![c] =
                [kind |-> "select", pc |-> "done", args |-> NoResult,
                 reads |-> << [writerPositions |-> fetched] >>,
                 result |-> GetBuyFromPoolRemainingAccounts(fetched)]]
    /\ UNCHANGED << ledgerVars, buyVars, unwindLedgerVars, unwindVars >>

\* remaining-accounts.ts:12-44: one call of getBuyFromPoolRemainingAccounts
ConcurrentSelect(c) ==
    /\ pc = "calls_in_flight"
    /\ calls[c].pc = "idle"
    /\ calls' = [calls EXCEPT ![c] =
            [kind |-> "select", pc |-> "done", args |-> NoResult,
             reads |-> << [writerPositions |-> writerPositions] >>,
             result |-> GetBuyFromPoolRemainingAccounts(writerPositions)]]
    /\ UNCHANGED << ledgerVars, buyVars, unwindLedgerVars, unwindVars >>

\* short/preflight.ts:94-243: one call of preflightUnwindWriterUnsold up to its
\* second batch of reads
ConcurrentUnwindBegin(c, q) ==
    /\ pc = "calls_in_flight"
    /\ calls[c].pc = "idle"
    /\ LET firstBatch == [optionPool |-> optionPool,
                          collateralPoolExists |-> collateralPoolExists,
                          writerPosition |-> writerPosition,
                          vault |-> vault,
                          poolLoans |-> FetchPoolLoansByMaker(loans),
                          currentSlot |-> currentSlot]
           outcome == IF UnwindMissingRecord # NoResult THEN UnwindMissingRecord
                      ELSE UnwindQuantityRejection(q, writerPosition[1].unsoldQty)
       IN  calls' = [calls EXCEPT ![c] =
                [kind |-> "unwind",
                 pc |-> IF outcome # NoResult THEN "done" ELSE "balances",
                 args |-> [unwindQty |-> q],
                 reads |-> << firstBatch >>,
                 result |-> outcome]]
    /\ UNCHANGED << ledgerVars, buyVars, unwindLedgerVars, unwindVars >>

\* short/preflight.ts:245-307: the second batch of reads of that call and its report
ConcurrentUnwindFinish(c) ==
    /\ pc = "calls_in_flight"
    /\ calls[c].pc = "balances"
    /\ LET first == calls[c].reads[1]
           secondBatch == [collateralVaultBalance |-> collateralVaultBalance,
                           walletBalance |-> walletBalance]
       IN  calls' = [calls EXCEPT ![c] =
                [kind |-> "unwind", pc |-> "done", args |-> calls[c].args,
                 reads |-> << first, secondBatch >>,
                 result |-> UnwindReport(calls[c].args.unwindQty,
                                         first.writerPosition[1],
                                         LoanBreakdown(first.poolLoans,
                                                       first.vault[1].protocolFeeBps,
                                                       first.currentSlot),
                                         collateralVaultBalance, walletBalance)]]
    /\ UNCHANGED << ledgerVars, buyVars, unwindLedgerVars, unwindVars >>

\* one ledger: a pool of two active writer positions, and a writer's position with
\* one loan; no call has started
InitConcurrent ==
    /\ optionPool = Some([totalAvailable |-> 1000000])
    /\ writerPositions =
           << [address |-> 1, unsoldQty |-> 200000, isSettled |-> FALSE,
               isLiquidated |-> FALSE],
              [address |-> 2, unsoldQty |-> 800000, isSettled |-> FALSE,
               isLiquidated |-> FALSE] >>
    /\ collateralPoolExists = TRUE
    /\ writerPosition = Some([writtenQty |-> 1000000, unsoldQty |-> 600000,
                              collateralDeposited |-> 100000,
                              isSettled |-> FALSE, isLiquidated |-> FALSE])
    /\ vault = Some([protocolFeeBps |-> 50])
    /\ loans = << [address |-> 1, vault |-> "vaultPda", status |-> 1,
                   principal |-> 400000, rateBps |-> 1000, lastUpdateSlot |-> 0,
                   accruedInterest |-> 0, accruedProtocolFees |-> 0] >>
    /\ currentSlot = 31536001
    /\ collateralVaultBalance = 0
    /\ walletBalance = 0
    /\ pc = "calls_in_flight"
    /\ params = NoResult
    /\ preflight = NoResult
    /\ refetchedPool = None
    /\ selectionSnapshot = None
    /\ remainingAccounts = << >>
    /\ recheckSnapshot = None
    /\ buildResult = NoResult
    /\ unwindSnapshot = None
    /\ loanBreakdown = << >>
    /\ unwindResult = NoResult
    /\ calls = [c \in CallIds |-> IdleCall]

NextConcurrent ==
    \/ \E c \in CallIds, q \in ConcurrentBuyQuantityValues : ConcurrentBuyPreflight(c, q)
    \/ \E c \in CallIds : ConcurrentSelect(c)
    \/ \E c \in CallIds, q \in ConcurrentUnwindQtyValues : ConcurrentUnwindBegin(c, q)
    \/ \E c \in CallIds : ConcurrentUnwindFinish(c)
    \/ \E i \in 1..Len(writerPositions) : SettlePosition(i)
    \/ \E amount \in CollateralVaultBalanceValues : CollateralVaultMoves(amount)

SpecConcurrent == InitConcurrent /\ [][NextConcurrent]_vars

-----------------------------------------------------------------------------

(* Properties of the buy flow and of the liquidity selection               *)

\* the activity condition as the specification states it
IsActivePosition(p) == ~p.isSettled /\ ~p.isLiquidated /\ p.unsoldQty > 0

ActiveIndices(positions) ==
    { i \in 1..Len(positions) : IsActivePosition(positions[i]) }

RECURSIVE SumOver(_, _)
SumOver(positions, indices) ==
    IF indices = {} THEN 0
    ELSE LET i == CHOOSE j \in indices : TRUE
         IN  positions[i].unsoldQty + SumOver(positions, indices \ {i})

ActiveUnsoldSum(positions) == SumOver(positions, ActiveIndices(positions))

\* C1: whenever the writer positions the build re-fetched cover less than the
\* requested quantity (sum of unsoldQty over the active positions < quantity), the
\* build ends in a validation error and returns no transaction, whatever an
\* earlier preflight on an older snapshot reported.
C1_StaleCoverageFailsBuild ==
    (pc = "done" /\ recheckSnapshot # None
        /\ ActiveUnsoldSum(recheckSnapshot[1]) < params.quantity)
    => (buildResult.kind = "error" /\ buildResult.name = "SdkValidationError")

\* C1 witness: preflight saw 1_000_000 active unsold for 900_000 requested and said
\* canBuy; the build re-fetched 800_000 and failed.
C1_Witness ==
    /\ pc = "done"
    /\ preflight.kind = "report" /\ preflight.canBuy
    /\ preflight.remainingUnsoldAggregate = 1000000
    /\ params.quantity = 900000
    /\ recheckSnapshot # None
    /\ ActiveUnsoldSum(recheckSnapshot[1]) = 800000
    /\ buildResult.kind = "error"

\* C2: a preflight that returns a report has canBuy = TRUE exactly when, on the
\* data it fetched, pool.totalAvailable >= requestedQuantity and the uncapped
\* sum of unsoldQty over the active writer positions >= requestedQuantity.
C2_CanBuyIffBothConditions ==
    [][ (pc = "idle" /\ pc' = "preflighted" /\ preflight'.kind = "report")
        => (preflight'.canBuy <=>
                (/\ optionPool[1].totalAvailable >= params'.quantity
                 /\ ActiveUnsoldSum(writerPositions) >= params'.quantity)) ]_vars

\* C2 witness: the pool aggregate covers the request, the active writers do not
\* (ghost liquidity), and the preflight reports canBuy = FALSE.
C2_Witness ==
    /\ pc = "preflighted"
    /\ preflight.kind = "report"
    /\ ~preflight.canBuy
    /\ preflight.poolTotalAvailable >= preflight.requestedQuantity
    /\ preflight.remainingUnsoldAggregate < preflight.requestedQuantity

SelectedAddresses == { remainingAccounts[i].address : i \in 1..Len(remainingAccounts) }

\* C3: the selection returns exactly the fetched positions that are not settled,
\* not liquidated and have unsoldQty > 0, each once.
C3_SelectionIsExactlyActive ==
    pc = "selected" =>
        /\ SelectedAddresses =
               { selectionSnapshot[1][i].address : i \in ActiveIndices(selectionSnapshot[1]) }
        /\ Cardinality(SelectedAddresses) = Len(remainingAccounts)

\* C3 witness: a fetched list with a settled, a liquidated, a zero-unsold and an
\* active position has been filtered.
C3_Witness ==
    /\ pc = "selected"
    /\ \E i, j, k, l \in 1..Len(selectionSnapshot[1]) :
          LET P == selectionSnapshot[1] IN
          /\ P[i].isSettled /\ P[i].unsoldQty > 0
          /\ P[j].isLiquidated /\ P[j].unsoldQty > 0
          /\ ~P[k].isSettled /\ ~P[k].isLiquidated /\ P[k].unsoldQty = 0
          /\ IsActivePosition(P[l])
    /\ Len(remainingAccounts) = 1

\* the fetched list of the example: unsold 5 active, 0 active, 2 settled, 3 active
ExamplePositions ==
    << [address |-> 1, unsoldQty |-> 5, isSettled |-> FALSE, isLiquidated |-> FALSE],
       [address |-> 2, unsoldQty |-> 0, isSettled |-> FALSE, isLiquidated |-> FALSE],
       [address |-> 3, unsoldQty |-> 2, isSettled |-> TRUE, isLiquidated |-> FALSE],
       [address |-> 4, unsoldQty |-> 3, isSettled |-> FALSE, isLiquidated |-> FALSE] >>

\* C4: the selection is in non-decreasing order of unsoldQty, and the example
\* list [5 active, 0 active, 2 settled, 3 active] gives exactly [3, 5].
C4_SelectionAscending ==
    pc = "selected" =>
        /\ \A i \in 1..(Len(remainingAccounts) - 1) :
              selectionSnapshot[1][remainingAccounts[i].address].unsoldQty
                  <= selectionSnapshot[1][remainingAccounts[i + 1].address].unsoldQty
        /\ selectionSnapshot[1] = ExamplePositions =>
              remainingAccounts = << [address |-> 4, isWritable |-> TRUE],
                                     [address |-> 1, isWritable |-> TRUE] >>

\* C4 witness: the example list has been selected from.
C4_Witness ==
    /\ pc = "selected"
    /\ selectionSnapshot[1] = ExamplePositions
    /\ Len(remainingAccounts) = 2

-----------------------------------------------------------------------------
(* Properties of the unwind preflight                                      *)

UNITS_PER_YEAR == 63072000

Max(a, b) == IF a >= b THEN a ELSE b

\* comparison of bigints (digit sequences without leading zeros)
RECURSIVE BigLeq(_, _)
BigLeq(a, b) ==
    IF Len(a) # Len(b) THEN Len(a) < Len(b)
    ELSE IF a = << >> THEN TRUE
    ELSE IF a[Len(a)] # b[Len(b)] THEN a[Len(a)] < b[Len(b)]
    ELSE BigLeq(SubSeq(a, 1, Len(a) - 1), SubSeq(b, 1, Len(b) - 1))

RECURSIVE BigSucc(_)
BigSucc(a) ==
    IF a = << >> THEN << 1 >>
    ELSE IF Head(a) < 9 THEN << Head(a) + 1 >> \o Tail(a)
    ELSE << 0 >> \o BigSucc(Tail(a))

\* q = floor(x / d), stated without division: d * q <= x < d * (q + 1)
IsFloorDiv(x, d, q) ==
    /\ BigLeq(BigMul(q, d), x)
    /\ ~BigLeq(BigMul(BigSucc(q), d), x)

\* v = floor(floor(principal * bps * elapsed / 10_000) / UNITS_PER_YEAR)
IsAccrual(principal, bps, elapsed, v) ==
    LET x == BigMul(BigMul(BigOf(principal), bps), elapsed)
        t == BigDiv(x, 10000)
    IN  /\ v >= 0
        /\ IsFloorDiv(x, 10000, t)
        /\ IsFloorDiv(t, UNITS_PER_YEAR, BigOf(v))

\* v = floor(total * unwindQty / writtenQty)
IsProportion(total, unwindQty, writtenQty, v) ==
    v >= 0 /\ IsFloorDiv(BigMul(BigOf(total), unwindQty), writtenQty, BigOf(v))

UnwindReturned == pc = "unwind_done" /\ unwindResult.kind = "report"
UnwindAccepted == UnwindReturned /\ unwindResult.canUnwind

\* the fetched loan a breakdown entry was computed from
FetchedLoan(entry) ==
    CHOOSE l \in { unwindSnapshot[1].loans[i] : i \in 1..Len(unwindSnapshot[1].loans) } :
        l.address = entry.loanAddress

\* C6: unwindQty <= 0 and unwindQty > position.unsoldQty are rejected with no
\* partial result (canUnwind and canRepayFully false, a reason, no loans, every
\* summary figure zero or false); 0 < unwindQty <= unsoldQty is not rejected.
C6_InvalidQuantityRejected ==
    (pc = "unwind_done" /\ unwindSnapshot # None) =>
        LET q == params.unwindQty
            unsoldQty == unwindSnapshot[1].writerPosition.unsoldQty
            s == unwindResult.summary
        IN  /\ unwindResult.kind = "report"
            /\ (q <= 0 \/ q > unsoldQty) =>
                  /\ ~unwindResult.canUnwind
                  /\ ~unwindResult.canRepayFully
                  /\ unwindResult.reason # "undefined"
                  /\ unwindResult.loans = << >>
                  /\ s.activeLoanCount = 0 /\ s.totalPrincipal = 0 /\ s.totalInterest = 0
                  /\ s.totalProtocolFees = 0 /\ s.totalOwed = 0
                  /\ s.proportionalPrincipal = 0 /\ s.proportionalInterest = 0
                  /\ s.proportionalProtocolFees = 0 /\ s.proportionalTotalOwed = 0
                  /\ s.proportionalCollateralShare = 0 /\ s.returnableCollateral = 0
                  /\ s.collateralVaultAvailable = 0 /\ s.walletFallbackAvailable = 0
                  /\ s.walletFallbackRequired = 0 /\ s.shortfall = 0
                  /\ s.collateralVaultShortfall = 0 /\ s.needsWalletTopUp = FALSE
            /\ (q > 0 /\ q <= unsoldQty) => unwindResult.canUnwind

\* C6 witness: an unwind of one unit more than the unsold quantity was rejected.
C6_Witness ==
    /\ UnwindReturned
    /\ params.unwindQty = unwindSnapshot[1].writerPosition.unsoldQty + 1
    /\ ~unwindResult.canUnwind

\* C7: for every included loan the newly accrued interest is
\* floor(floor(principal * rateBps * elapsed / 10_000) / UNITS_PER_YEAR) with
\* elapsed = max(0, now - lastUpdateSlot), the newly accrued fee is the same with
\* the vault's protocolFeeBps; principal 1_000_000 at 1000 bps over a full year
\* with a 50 bps fee gives 100_000 and 5_000.
C7_AccrualFormula ==
    UnwindAccepted =>
        \A i \in 1..Len(unwindResult.loans) :
            LET entry == unwindResult.loans[i]
                loan == FetchedLoan(entry)
                now == unwindSnapshot[1].currentSlot
                feeBps == unwindSnapshot[1].vault.protocolFeeBps
                elapsed == Max(0, now - loan.lastUpdateSlot)
            IN  /\ IsAccrual(loan.principal, loan.rateBps, elapsed,
                             entry.newlyAccruedInterest)
                /\ IsAccrual(loan.principal, feeBps, elapsed,
                             entry.newlyAccruedProtocolFees)
                /\ (/\ loan.principal = 1000000 /\ loan.rateBps = 1000
                    /\ loan.lastUpdateSlot = 0 /\ now = UNITS_PER_YEAR /\ feeBps = 50)
                   => (/\ entry.newlyAccruedInterest = 100000
                       /\ entry.newlyAccruedProtocolFees = 5000)

\* C7 witness: the example loan was accrued over a full year, and another loan
\* over a span where the floors cut a fraction off.
C7_Witness ==
    /\ UnwindAccepted
    /\ unwindSnapshot[1].currentSlot = UNITS_PER_YEAR
    /\ \E i, j \in 1..Len(unwindResult.loans) :
          /\ unwindResult.loans[i].principal = 1000000
          /\ unwindResult.loans[i].newlyAccruedInterest = 100000
          /\ unwindResult.loans[i].newlyAccruedProtocolFees = 5000
          /\ unwindResult.loans[j].principal = 333333
          /\ unwindResult.loans[j].newlyAccruedInterest = 12949

\* C8: for an accepted unwind with writtenQty > 0 every proportional figure is
\* floor(total * unwindQty / writtenQty), proportionalTotalOwed is the sum of the
\* three floored obligation figures, and the example (written 1_000_000, unwind
\* 500_000, collateral 100_000, aggregate 400_000 / 40_000 / 2_000) gives
\* 200_000 / 20_000 / 1_000 / 221_000 / 50_000 / 0.
C8_ProportionalFigures ==
    (UnwindAccepted /\ unwindSnapshot[1].writerPosition.writtenQty > 0) =>
        LET s == unwindResult.summary
            q == params.unwindQty
            position == unwindSnapshot[1].writerPosition
            w == position.writtenQty
        IN  /\ IsProportion(s.totalPrincipal, q, w, s.proportionalPrincipal)
            /\ IsProportion(s.totalInterest, q, w, s.proportionalInterest)
            /\ IsProportion(s.totalProtocolFees, q, w, s.proportionalProtocolFees)
            /\ IsProportion(position.collateralDeposited, q, w,
                            s.proportionalCollateralShare)
            /\ s.proportionalTotalOwed =
                  s.proportionalPrincipal + s.proportionalInterest
                      + s.proportionalProtocolFees
            /\ (/\ w = 1000000 /\ q = 500000 /\ position.collateralDeposited = 100000
                /\ s.totalPrincipal = 400000 /\ s.totalInterest = 40000
                /\ s.totalProtocolFees = 2000)
               => (/\ s.proportionalPrincipal = 200000
                   /\ s.proportionalInterest = 20000
                   /\ s.proportionalProtocolFees = 1000
                   /\ s.proportionalTotalOwed = 221000
                   /\ s.proportionalCollateralShare = 50000
                   /\ s.returnableCollateral = 0)

\* C8 witness: the example position and aggregate have been prorated.
C8_Witness ==
    /\ UnwindAccepted
    /\ unwindSnapshot[1].writerPosition.writtenQty = 1000000
    /\ unwindSnapshot[1].writerPosition.unsoldQty = 600000
    /\ unwindSnapshot[1].writerPosition.collateralDeposited = 100000
    /\ params.unwindQty = 500000
    /\ unwindResult.summary.totalPrincipal = 400000
    /\ unwindResult.summary.totalInterest = 40000
    /\ unwindResult.summary.totalProtocolFees = 2000
    /\ unwindResult.summary.proportionalTotalOwed = 221000

\* the funding relations between shortfall, canRepayFully and reason
ShortfallRelations ==
    LET s == unwindResult.summary
        available == s.collateralVaultAvailable + s.walletFallbackAvailable
    IN  /\ s.shortfall = Max(0, s.proportionalTotalOwed - available)
        /\ (s.shortfall = 0 <=> available >= s.proportionalTotalOwed)
        /\ (unwindResult.canRepayFully <=> s.shortfall = 0)
        /\ (unwindResult.reason # "undefined" <=> s.shortfall > 0)

\* C9 as stated: the relations hold in every unwind report.
C9_ShortfallInEveryReport == UnwindReturned => ShortfallRelations

\* C9 as amended: the relations hold in every report of an accepted unwind
\* (canUnwind = TRUE).
C9_ShortfallInAcceptedReport == UnwindAccepted => ShortfallRelations

\* C9 witness: reserve plus wallet cover the obligation exactly, with nothing to
\* spare, and the report says the unwind can be repaid in full.
C9_Witness ==
    /\ UnwindAccepted
    /\ unwindResult.summary.proportionalTotalOwed > 0
    /\ unwindResult.summary.walletFallbackAvailable > 0
    /\ unwindResult.summary.collateralVaultAvailable
           + unwindResult.summary.walletFallbackAvailable
         = unwindResult.summary.proportionalTotalOwed
    /\ unwindResult.canRepayFully

\* C10: in every unwind report returnableCollateral =
\* max(0, proportionalCollateralShare - proportionalTotalOwed); it is never
\* negative, never above the share, and 0 whenever the obligation reaches the share.
C10_ReturnableCollateral ==
    UnwindReturned =>
        LET s == unwindResult.summary
        IN  /\ s.returnableCollateral =
                  Max(0, s.proportionalCollateralShare - s.proportionalTotalOwed)
            /\ s.returnableCollateral >= 0
            /\ s.returnableCollateral <= s.proportionalCollateralShare
            /\ (s.proportionalTotalOwed >= s.proportionalCollateralShare
                   => s.returnableCollateral = 0)

\* C10 witness: the obligation exceeds the share of an accepted unwind and nothing
\* is returnable.
C10_Witness ==
    /\ UnwindAccepted
    /\ unwindResult.summary.proportionalCollateralShare > 0
    /\ unwindResult.summary.proportionalTotalOwed
           > unwindResult.summary.proportionalCollateralShare
    /\ unwindResult.summary.returnableCollateral = 0

Min(a, b) == IF a <= b THEN a ELSE b

\* C11: in every unwind report walletFallbackRequired =
\* max(0, proportionalTotalOwed - collateralVaultAvailable): it is 0 whenever the
\* reserve alone covers the obligation and otherwise exactly the part the reserve
\* cannot cover, whatever the wallet holds.
C11_WalletFallbackRequired ==
    UnwindReturned =>
        LET s == unwindResult.summary
        IN  /\ s.walletFallbackRequired =
                  Max(0, s.proportionalTotalOwed - s.collateralVaultAvailable)
            /\ (s.collateralVaultAvailable >= s.proportionalTotalOwed
                   => s.walletFallbackRequired = 0)
            /\ (s.collateralVaultAvailable < s.proportionalTotalOwed
                   => s.walletFallbackRequired + s.collateralVaultAvailable
                          = s.proportionalTotalOwed)

\* C11 witness: the reserve covers part of the obligation, the wallet holds funds,
\* and the required draw is the uncovered part.
C11_Witness ==
    /\ UnwindAccepted
    /\ unwindResult.summary.collateralVaultAvailable > 0
    /\ unwindResult.summary.walletFallbackAvailable > 0
    /\ unwindResult.summary.proportionalTotalOwed
           > unwindResult.summary.collateralVaultAvailable
    /\ unwindResult.summary.walletFallbackRequired
           = unwindResult.summary.proportionalTotalOwed
               - unwindResult.summary.collateralVaultAvailable

\* what is left in the reserve once it has paid its part of the obligation
ReserveAfterRepayment ==
    unwindResult.summary.collateralVaultAvailable
        - Min(unwindResult.summary.proportionalTotalOwed,
              unwindResult.summary.collateralVaultAvailable)

\* C12 as stated: collateralVaultShortfall is 0 exactly when the reserve left after
\* it has paid its part of proportionalTotalOwed is at least returnableCollateral.
C12_ShortfallAfterRepayment ==
    UnwindAccepted =>
        (unwindResult.summary.collateralVaultShortfall = 0
            <=> ReserveAfterRepayment >= unwindResult.summary.returnableCollateral)

\* C12 as amended: collateralVaultShortfall =
\* max(0, returnableCollateral - collateralVaultAvailable), so it is 0 exactly when
\* the reserve balance as read, before any repayment is drawn from it, is at least
\* returnableCollateral.
C12_ShortfallBeforeRepayment ==
    UnwindReturned =>
        LET s == unwindResult.summary
        IN  /\ s.collateralVaultShortfall =
                  Max(0, s.returnableCollateral - s.collateralVaultAvailable)
            /\ (s.collateralVaultShortfall = 0
                   <=> s.collateralVaultAvailable >= s.returnableCollateral)

\* C12 witness: the reserve as read covers the returnable collateral, yet would not
\* once it has paid the obligation; the reported shortfall is 0.
C12_Witness ==
    /\ UnwindAccepted
    /\ unwindResult.summary.proportionalTotalOwed > 0
    /\ unwindResult.summary.returnableCollateral > 0
    /\ unwindResult.summary.collateralVaultAvailable
           >= unwindResult.summary.returnableCollateral
    /\ ReserveAfterRepayment < unwindResult.summary.returnableCollateral
    /\ unwindResult.summary.collateralVaultShortfall = 0

\* C13: in every unwind report needsWalletTopUp is true if and only if
\* collateralVaultShortfall > 0 and walletFallbackAvailable < collateralVaultShortfall,
\* with collateralVaultShortfall = max(0, returnableCollateral - collateralVaultAvailable).
C13_NeedsWalletTopUp ==
    UnwindReturned =>
        LET s == unwindResult.summary
            collateralVaultShortfall ==
                Max(0, s.returnableCollateral - s.collateralVaultAvailable)
        IN  s.needsWalletTopUp
                <=> (/\ collateralVaultShortfall > 0
                     /\ s.walletFallbackAvailable < collateralVaultShortfall)

\* C13 witness: the reserve falls short of the returnable collateral and the wallet
\* holds enough to make up for it, so no top-up is asked for.
C13_Witness ==
    /\ UnwindAccepted
    /\ unwindResult.summary.collateralVaultShortfall > 0
    /\ unwindResult.summary.walletFallbackAvailable
           >= unwindResult.summary.collateralVaultShortfall
    /\ ~unwindResult.summary.needsWalletTopUp

\* the loans of the ledger the unwind has to count: of the unwind's vault and Active
CountedLedgerLoans ==
    SelectSeq(loans, LAMBDA l : l.vault = "vaultPda" /\ l.status = 1)

\* C14: the report of an accepted unwind lists exactly the maker's loans that belong
\* to the vault of the unwind and are Active, in ledger order; a Closed loan or a
\* loan of another vault adds nothing to the list, the count or the principal total.
C14_LoanInclusion ==
    UnwindAccepted =>
        /\ Len(unwindResult.loans) = Len(CountedLedgerLoans)
        /\ \A i \in 1..Len(unwindResult.loans) :
              /\ unwindResult.loans[i].loanAddress = CountedLedgerLoans[i].address
              /\ unwindResult.loans[i].principal = CountedLedgerLoans[i].principal
        /\ unwindResult.summary.activeLoanCount = Len(CountedLedgerLoans)
        /\ unwindResult.summary.totalPrincipal =
              SumSeq([i \in 1..Len(CountedLedgerLoans) |-> CountedLedgerLoans[i].principal])

\* C14 witness: the maker has an Active loan of the vault and an Active loan of
\* another vault, and the report counts one loan.
C14_Witness ==
    /\ UnwindAccepted
    /\ \E i \in 1..Len(loans) : loans[i].vault # "vaultPda" /\ loans[i].status = 1
    /\ \E i \in 1..Len(loans) : loans[i].vault = "vaultPda" /\ loans[i].status = 1
    /\ Len(unwindResult.loans) = 1
    /\ unwindResult.summary.activeLoanCount = 1

\* C15: for every included loan and every earlier time t1 <= now, the interest and
\* the fee newly accrued at now are >= those accrued at t1, and totalInterest /
\* totalProtocolFees are >= the loan's stored accruedInterest / accruedProtocolFees.
C15_AccrualMonotone ==
    UnwindAccepted =>
        \A i \in 1..Len(unwindResult.loans) :
            LET entry == unwindResult.loans[i]
                loan == FetchedLoan(entry)
                now == unwindSnapshot[1].currentSlot
                feeBps == unwindSnapshot[1].vault.protocolFeeBps
            IN  /\ \A t1 \in { t \in SlotValues : t <= now } :
                      /\ NewlyAccrued(loan.principal, loan.rateBps,
                                      SlotsElapsed(t1, loan.lastUpdateSlot))
                            <= entry.newlyAccruedInterest
                      /\ NewlyAccrued(loan.principal, feeBps,
                                      SlotsElapsed(t1, loan.lastUpdateSlot))
                            <= entry.newlyAccruedProtocolFees
                /\ entry.totalInterest >= loan.accruedInterest
                /\ entry.totalProtocolFees >= loan.accruedProtocolFees

\* C15 witness: a loan with stored accruals was evaluated one slot after its last
\* update, later than a time at which it had not been updated yet.
C15_Witness ==
    /\ UnwindAccepted
    /\ \E i \in 1..Len(unwindResult.loans) :
          /\ unwindResult.loans[i].accruedInterest > 0
          /\ FetchedLoan(unwindResult.loans[i]).lastUpdateSlot > 0
          /\ unwindSnapshot[1].currentSlot
                 > FetchedLoan(unwindResult.loans[i]).lastUpdateSlot
          /\ unwindResult.loans[i].totalInterest
                 >= unwindResult.loans[i].accruedInterest

\* C16: for every included loan evaluated at now <= lastUpdateSlot the newly accrued
\* interest and fee are 0, and the totals are the stored accruals.
C16_ZeroElapsed ==
    UnwindAccepted =>
        \A i \in 1..Len(unwindResult.loans) :
            LET entry == unwindResult.loans[i]
                loan == FetchedLoan(entry)
            IN  unwindSnapshot[1].currentSlot <= loan.lastUpdateSlot =>
                    /\ entry.newlyAccruedInterest = 0
                    /\ entry.newlyAccruedProtocolFees = 0
                    /\ entry.totalInterest = loan.accruedInterest
                    /\ entry.totalProtocolFees = loan.accruedProtocolFees

\* C16 witness: one loan evaluated at its last update slot and one evaluated before
\* its last update slot, both with nothing newly accrued.
C16_Witness ==
    /\ UnwindAccepted
    /\ \E i, j \in 1..Len(unwindResult.loans) :
          /\ FetchedLoan(unwindResult.loans[i]).lastUpdateSlot
                 = unwindSnapshot[1].currentSlot
          /\ unwindResult.loans[i].principal > 0
          /\ unwindResult.loans[i].newlyAccruedInterest = 0
          /\ FetchedLoan(unwindResult.loans[j]).lastUpdateSlot
                 > unwindSnapshot[1].currentSlot
          /\ unwindResult.loans[j].newlyAccruedInterest = 0
          /\ unwindResult.loans[j].totalInterest = 11

\* C17: an accepted unwind of the whole written quantity (unwindQty = writtenQty > 0)
\* reports the proportional figures equal to the totals and the collateral share
\* equal to collateralDeposited.
C17_FullUnwindIsExact ==
    (UnwindAccepted /\ params.unwindQty = unwindSnapshot[1].writerPosition.writtenQty) =>
        LET s == unwindResult.summary
        IN  /\ s.proportionalPrincipal = s.totalPrincipal
            /\ s.proportionalInterest = s.totalInterest
            /\ s.proportionalProtocolFees = s.totalProtocolFees
            /\ s.proportionalTotalOwed = s.totalOwed
            /\ s.proportionalCollateralShare
                  = unwindSnapshot[1].writerPosition.collateralDeposited

\* C17 witness: the whole written quantity was unwound with principal, interest and
\* fees outstanding.
C17_Witness ==
    /\ UnwindAccepted
    /\ params.unwindQty = unwindSnapshot[1].writerPosition.writtenQty
    /\ unwindResult.summary.totalPrincipal > 0
    /\ unwindResult.summary.totalInterest > 0
    /\ unwindResult.summary.totalProtocolFees > 0
    /\ unwindResult.summary.proportionalTotalOwed = unwindResult.summary.totalOwed

\* C18: the report keeps one entry per included loan, each with totalInterest =
\* accruedInterest + newlyAccruedInterest, totalProtocolFees = accruedProtocolFees +
\* newlyAccruedProtocolFees, totalOwed = principal + totalInterest +
\* totalProtocolFees; activeLoanCount is the length of the list and the four totals
\* are the sums of the per-loan figures.
C18_BreakdownConsistent ==
    UnwindAccepted =>
        LET s == unwindResult.summary
            included == SelectSeq(unwindSnapshot[1].loans,
                                  LAMBDA l : l.vault = "vaultPda" /\ l.status = 1)
        IN  /\ Len(unwindResult.loans) = Len(included)
            /\ \A i \in 1..Len(unwindResult.loans) :
                  LET entry == unwindResult.loans[i]
                  IN  /\ entry.loanAddress = included[i].address
                      /\ entry.totalInterest
                            = entry.accruedInterest + entry.newlyAccruedInterest
                      /\ entry.totalProtocolFees
                            = entry.accruedProtocolFees + entry.newlyAccruedProtocolFees
                      /\ entry.totalOwed
                            = entry.principal + entry.totalInterest
                                + entry.totalProtocolFees
            /\ s.activeLoanCount = Len(unwindResult.loans)
            /\ s.totalPrincipal =
                  SumSeq([i \in 1..Len(unwindResult.loans) |->
                              unwindResult.loans[i].principal])
            /\ s.totalInterest =
                  SumSeq([i \in 1..Len(unwindResult.loans) |->
                              unwindResult.loans[i].totalInterest])
            /\ s.totalProtocolFees =
                  SumSeq([i \in 1..Len(unwindResult.loans) |->
                              unwindResult.loans[i].totalProtocolFees])
            /\ s.totalOwed =
                  SumSeq([i \in 1..Len(unwindResult.loans) |->
                              unwindResult.loans[i].totalOwed])
            /\ s.totalOwed = s.totalPrincipal + s.totalInterest + s.totalProtocolFees

\* C18 witness: a report with two loan entries, one of them with stored and newly
\* accrued interest.
C18_Witness ==
    /\ UnwindAccepted
    /\ Len(unwindResult.loans) = 2
    /\ unwindResult.summary.activeLoanCount = 2
    /\ \E i \in 1..2 :
          /\ unwindResult.loans[i].accruedInterest > 0
          /\ unwindResult.loans[i].newlyAccruedInterest > 0
    /\ unwindResult.summary.totalOwed
          = unwindResult.loans[1].totalOwed + unwindResult.loans[2].totalOwed

\* C19 as stated, for the unwind preflight: a call with unwindQty <= 0 ends with the
\* quantity fault whatever the ledger holds.
C19_InputFaultReportedFirst ==
    (pc = "unwind_done" /\ params.unwindQty <= 0) =>
        /\ unwindResult.kind = "report"
        /\ unwindResult.reason = ReasonUnwindQtyPositive

IsValidationError(result) == result.kind = "error" /\ result.name = "SdkValidationError"

\* C20: with a required record absent, the buy preflight, the market-order build and
\* the unwind preflight each end with an SdkValidationError and no report or
\* transaction; with valid arguments the message names the missing record; no
\* further read follows (no coverage re-fetch, no unwind snapshot, no balances).
C20_MissingRecordFails ==
    /\ (pc \in {"preflighted", "done"} /\ optionPool = None) =>
          /\ IsValidationError(preflight)
          /\ (params.quantity > 0 => preflight.message = MsgPoolMustExist)
    /\ (pc = "done" /\ optionPool = None) =>
          /\ IsValidationError(buildResult)
          /\ ((params.quantity > 0 /\ params.quotedPremiumTotal > 0)
                 => buildResult.message = MsgPoolMustExist)
          /\ recheckSnapshot = None
    /\ (optionPool = None => pc # "build_recheck")
    /\ (/\ pc = "unwind_done"
        /\ (optionPool = None \/ ~collateralPoolExists \/ writerPosition = None
               \/ vault = None)) =>
          /\ IsValidationError(unwindResult)
          /\ unwindResult.message \in
                {MsgUnwindPoolState, MsgUnwindWriterPosition, MsgUnwindCollateralPool,
                 MsgUnwindVault}
          /\ ((optionPool = None \/ ~collateralPoolExists)
                 <=> unwindResult.message = MsgUnwindPoolState)
          /\ ((optionPool # None /\ collateralPoolExists /\ writerPosition = None)
                 <=> unwindResult.message = MsgUnwindWriterPosition)
          /\ unwindSnapshot = None
          /\ loanBreakdown = << >>
    /\ (pc = "unwind_balances" =>
          (optionPool # None /\ collateralPoolExists /\ writerPosition # None
             /\ vault # None))

\* C20 witness: an unwind preflight with a valid quantity ended on a ledger whose
\* only missing record is the writer position.
C20_Witness ==
    /\ pc = "unwind_done"
    /\ params.unwindQty > 0
    /\ optionPool # None /\ collateralPoolExists /\ vault # None
    /\ writerPosition = None
    /\ unwindResult = SdkValidationError(MsgUnwindWriterPosition)

-----------------------------------------------------------------------------
\* the amounts of one entry of the per-loan breakdown
EntryAmounts(entry) ==
    {entry.principal, entry.accruedInterest, entry.accruedProtocolFees,
     entry.newlyAccruedInterest, entry.newlyAccruedProtocolFees,
     entry.totalInterest, entry.totalProtocolFees, entry.totalOwed}

\* the amounts of the summary of a report
SummaryAmounts(s) ==
    {s.totalPrincipal, s.totalInterest, s.totalProtocolFees, s.totalOwed,
     s.proportionalPrincipal, s.proportionalInterest, s.proportionalProtocolFees,
     s.proportionalTotalOwed, s.proportionalCollateralShare, s.returnableCollateral,
     s.collateralVaultAvailable, s.walletFallbackAvailable, s.walletFallbackRequired,
     s.shortfall, s.collateralVaultShortfall}

\* C21: no subtraction of the unwind preflight underflows: in every report,
\* whatever the ledger holds and whatever unwindQty was accepted, every per-loan
\* figure, every total, every proportional figure, returnableCollateral,
\* walletFallbackRequired, shortfall and collateralVaultShortfall is >= 0.
C21_NoUnderflow ==
    UnwindReturned =>
        /\ \A i \in 1..Len(unwindResult.loans) :
              \A amount \in EntryAmounts(unwindResult.loans[i]) : amount >= 0
        /\ \A amount \in SummaryAmounts(unwindResult.summary) : amount >= 0

\* C21 witness: an accepted unwind in which each guarded subtraction would go below
\* zero: a loan last updated after the slot read, an obligation above the collateral
\* share, and a reserve above both the obligation and the returnable collateral.
C21_Witness ==
    /\ UnwindAccepted
    /\ \E i \in 1..Len(unwindResult.loans) :
          FetchedLoan(unwindResult.loans[i]).lastUpdateSlot
              > unwindSnapshot[1].currentSlot
    /\ unwindResult.summary.proportionalTotalOwed
           > unwindResult.summary.proportionalCollateralShare
    /\ unwindResult.summary.collateralVaultAvailable
           > unwindResult.summary.proportionalTotalOwed
    /\ unwindResult.summary.collateralVaultAvailable
           + unwindResult.summary.walletFallbackAvailable
           > unwindResult.summary.proportionalTotalOwed
    /\ unwindResult.summary.collateralVaultAvailable
           > unwindResult.summary.returnableCollateral

-----------------------------------------------------------------------------
\* the ledger as one record, under the names the calls keep their reads by
LedgerNow ==
    [optionPool |-> optionPool,
     writerPositions |-> writerPositions,
     collateralPoolExists |-> collateralPoolExists,
     writerPosition |-> writerPosition,
     vault |-> vault,
     poolLoans |-> FetchPoolLoansByMaker(loans),
     currentSlot |-> currentSlot,
     collateralVaultBalance |-> collateralVaultBalance,
     walletBalance |-> walletBalance]

\* the result a finished call must have, as a function of its own arguments and of
\* the reads it made itself
ResultFromOwnReads(call) ==
    CASE call.kind = "buy" ->
            PreflightBuyFromPoolMarketOrder(call.args, call.reads[1].optionPool,
                                            call.reads[1].writerPositions)
      [] call.kind = "select" ->
            GetBuyFromPoolRemainingAccounts(call.reads[1].writerPositions)
      [] call.kind = "unwind" /\ Len(call.reads) = 1 ->
            UnwindQuantityRejection(call.args.unwindQty,
                                    call.reads[1].writerPosition[1].unsoldQty)
      [] call.kind = "unwind" /\ Len(call.reads) = 2 ->
            UnwindReport(call.args.unwindQty, call.reads[1].writerPosition[1],
                         LoanBreakdown(call.reads[1].poolLoans,
                                       call.reads[1].vault[1].protocolFeeBps,
                                       call.reads[1].currentSlot),
                         call.reads[2].collateralVaultBalance,
                         call.reads[2].walletBalance)

\* a step of call c: it leaves the ledger and every other call as they were, and
\* what it reads in the step is what the ledger holds at that moment
OwnStepOnly(c) ==
    /\ UNCHANGED << ledgerVars, unwindLedgerVars >>
    /\ \A d \in CallIds \ {c} : calls'[d] = calls[d]
    /\ Len(calls'[c].reads) = Len(calls[c].reads) + 1
    /\ LET read == calls'[c].reads[Len(calls'[c].reads)]
       IN  \A field \in DOMAIN read : read[field] = LedgerNow[field]
    /\ \A k \in 1..Len(calls[c].reads) : calls'[c].reads[k] = calls[c].reads[k]

\* C22: calls in flight at once do not interact: under every interleaving of the
\* calls and of ledger updates, the result of a finished call is a function of its
\* own arguments and of the reads it made itself, each read returns what the ledger
\* holds when it is made, and a step of a call changes neither the ledger nor
\* anything another call reads.
C22_CallsDoNotInteract ==
    /\ [](\A c \in CallIds :
             calls[c].pc = "done" => calls[c].result = ResultFromOwnReads(calls[c]))
    /\ [][\A c \in CallIds : calls'[c] # calls[c] => OwnStepOnly(c)]_vars

\* C22 witness: two finished calls of the same kind and arguments returned different
\* results: both are unwind preflights that read the same accounts in their first
\* batch and, the reserve having moved in between, different balances in their second.
C22_Witness ==
    /\ \A c \in CallIds : calls[c].pc = "done"
    /\ \E c, d \in CallIds :
          /\ calls[c].kind = "unwind" /\ calls[d].kind = "unwind"
          /\ calls[c].args = calls[d].args
          /\ Len(calls[c].reads) = 2 /\ Len(calls[d].reads) = 2
          /\ calls[c].reads[1] = calls[d].reads[1]
          /\ calls[c].reads[2] # calls[d].reads[2]
          /\ calls[c].result # calls[d].result

\* C23: a position with writtenQty = 0 is no error for the proportional computation:
\* whenever the quantity check passes on such a position, a full report with
\* canUnwind = TRUE is returned in which proportionalPrincipal, proportionalInterest,
\* proportionalProtocolFees, proportionalTotalOwed, proportionalCollateralShare and
\* returnableCollateral are all 0.
C23_NothingWritten ==
    (/\ pc = "unwind_done"
     /\ unwindSnapshot # None
     /\ unwindSnapshot[1].writerPosition.writtenQty = 0
     /\ params.unwindQty > 0
     /\ params.unwindQty <= unwindSnapshot[1].writerPosition.unsoldQty)
        => /\ unwindResult.kind = "report"
           /\ unwindResult.canUnwind
           /\ unwindResult.loans = loanBreakdown
           /\ unwindResult.summary.activeLoanCount = Len(loanBreakdown)
           /\ unwindResult.summary.totalOwed = Totals(loanBreakdown).owed
           /\ unwindResult.summary.proportionalPrincipal = 0
           /\ unwindResult.summary.proportionalInterest = 0
           /\ unwindResult.summary.proportionalProtocolFees = 0
           /\ unwindResult.summary.proportionalTotalOwed = 0
           /\ unwindResult.summary.proportionalCollateralShare = 0
           /\ unwindResult.summary.returnableCollateral = 0

\* C23 witness: an accepted unwind of a position with nothing written, with a loan
\* outstanding and collateral deposited.
C23_Witness ==
    /\ UnwindAccepted
    /\ unwindSnapshot[1].writerPosition.writtenQty = 0
    /\ unwindSnapshot[1].writerPosition.collateralDeposited > 0
    /\ unwindResult.summary.totalOwed > 0
    /\ unwindResult.summary.proportionalTotalOwed = 0

-----------------------------------------------------------------------------
\* C24: the reason of a buy preflight report names the failing condition: it is
\* absent exactly when canBuy is TRUE; it is the pool-level message whenever
\* pool.totalAvailable < requestedQuantity, the writer coverage failing too or not;
\* it is the writer-level message exactly when pool.totalAvailable >=
\* requestedQuantity and the active writers' unsold total < requestedQuantity; and
\* the two messages differ.
C24_ReasonNamesFailingCondition ==
    [][ (pc = "idle" /\ pc' = "preflighted" /\ preflight'.kind = "report")
        => LET requestedQuantity == params'.quantity
               totalAvailable == optionPool[1].totalAvailable
               activeUnsold == ActiveUnsoldSum(writerPositions)
           IN  /\ (preflight'.reason = "undefined") <=> preflight'.canBuy
               /\ (preflight'.reason = ReasonPool)
                      <=> (totalAvailable < requestedQuantity)
               /\ (preflight'.reason = ReasonWriters)
                      <=> (/\ totalAvailable >= requestedQuantity
                           /\ activeUnsold < requestedQuantity)
               /\ ReasonPool # ReasonWriters ]_vars

\* C24 witness: the pool aggregate and the writer coverage both fall short of the
\* request, and the report carries the pool-level message.
C24_Witness ==
    /\ pc = "preflighted"
    /\ preflight.kind = "report"
    /\ preflight.poolTotalAvailable < preflight.requestedQuantity
    /\ preflight.remainingUnsoldAggregate < preflight.requestedQuantity
    /\ ~preflight.canBuy
    /\ preflight.reason = ReasonPool

-----------------------------------------------------------------------------
\* inputs the accrual formula is compared on, besides the loans of the ledger
AccrualPrincipalValues == {1, 333333, 1000000}
AccrualRateValues == {1, 777, 9999}
AccrualElapsedValues == {1, 31536000, 63071999}

\* (10_000 * UNITS_PER_YEAR) * q
TimesWholeDenominator(q) == BigMul(BigMul(BigOf(q), 10000), UNITS_PER_YEAR)

\* v = floor(principal * bps * elapsed / (10_000 * UNITS_PER_YEAR)), floored once
IsSingleFloorAccrual(principal, bps, elapsed, v) ==
    LET x == BigMul(BigMul(BigOf(principal), bps), elapsed)
    IN  /\ v >= 0
        /\ BigLeq(TimesWholeDenominator(v), x)
        /\ ~BigLeq(TimesWholeDenominator(v + 1), x)

\* v is strictly less than floor(principal * bps * elapsed / (10_000 * UNITS_PER_YEAR))
BelowSingleFloorAccrual(principal, bps, elapsed, v) ==
    BigLeq(TimesWholeDenominator(v + 1),
           BigMul(BigMul(BigOf(principal), bps), elapsed))

\* both divisions of the accrual discard a remainder
BothFloorsCut(principal, bps, elapsed) ==
    LET first == BigDivRem(BigMul(BigMul(BigOf(principal), bps), elapsed), 10000)
    IN  first.r # 0 /\ BigDivRem(BigNormalize(first.q), UNITS_PER_YEAR).r # 0

\* C25 as stated: there are non-negative principal, rateBps and elapsed (among the
\* values above and those of the ledger's loans at the slot read) for which the
\* amount accrued by flooring at each step is strictly less than
\* floor(principal * rateBps * elapsed / (10_000 * UNITS_PER_YEAR)).
C25_StepwiseUnderAccrues ==
    \E principal \in AccrualPrincipalValues
                         \cup { loans[i].principal : i \in 1..Len(loans) },
       bps \in AccrualRateValues \cup { loans[i].rateBps : i \in 1..Len(loans) },
       elapsed \in AccrualElapsedValues
                       \cup { Max(0, currentSlot - loans[i].lastUpdateSlot) :
                                 i \in 1..Len(loans) } :
        BelowSingleFloorAccrual(principal, bps, elapsed,
                                NewlyAccrued(principal, bps, elapsed))

\* C25, amended: flooring at each step never under-accrues relative to flooring
\* once: for all non-negative principal, rateBps and elapsed,
\* floor(floor(principal * rateBps * elapsed / 10_000) / UNITS_PER_YEAR) equals
\* floor(principal * rateBps * elapsed / (10_000 * UNITS_PER_YEAR)); so do the
\* interest and the fee newly accrued on every loan of every report.  (The sample
\* inputs do not depend on the state; they are evaluated before the call, on the
\* ledgers that hold no loan.)
C25_StepwiseEqualsSingleFloor ==
    /\ (pc = "unwind_idle" /\ loans = << >>) =>
          \A principal \in AccrualPrincipalValues, bps \in AccrualRateValues,
             elapsed \in AccrualElapsedValues :
              IsSingleFloorAccrual(principal, bps, elapsed,
                                   NewlyAccrued(principal, bps, elapsed))
    /\ UnwindAccepted =>
          \A i \in 1..Len(unwindResult.loans) :
              LET entry == unwindResult.loans[i]
                  loan == FetchedLoan(entry)
                  elapsed == Max(0, unwindSnapshot[1].currentSlot - loan.lastUpdateSlot)
              IN  /\ IsSingleFloorAccrual(loan.principal, loan.rateBps, elapsed,
                                          entry.newlyAccruedInterest)
                  /\ IsSingleFloorAccrual(loan.principal,
                                          unwindSnapshot[1].vault.protocolFeeBps,
                                          elapsed, entry.newlyAccruedProtocolFees)

\* C25 witness: a report with a loan on which both divisions discarded a remainder
\* and interest was accrued.
C25_Witness ==
    /\ UnwindAccepted
    /\ \E i \in 1..Len(unwindResult.loans) :
          LET loan == FetchedLoan(unwindResult.loans[i])
              elapsed == Max(0, unwindSnapshot[1].currentSlot - loan.lastUpdateSlot)
          IN  /\ BothFloorsCut(loan.principal, loan.rateBps, elapsed)
              /\ unwindResult.loans[i].newlyAccruedInterest > 0

-----------------------------------------------------------------------------
BuildReturnedTransaction == pc = "done" /\ buildResult.kind = "tx"

\* C26 as stated: whenever the market-order build returns a transaction, both
\* conditions of the buy preflight hold on the data that build fetched itself:
\* pool.totalAvailable >= quantity and active writer unsold total >= quantity.
C26_BuildImpliesBothConditions ==
    BuildReturnedTransaction =>
        /\ refetchedPool # None
        /\ refetchedPool[1].totalAvailable >= params.quantity
        /\ ActiveUnsoldSum(recheckSnapshot[1]) >= params.quantity

\* C26, amended: whenever the market-order build returns a transaction, the option
\* pool it fetched exists and the active writer unsold total of the positions it
\* re-fetched is >= quantity; pool.totalAvailable is not compared with quantity.
C26_BuildImpliesWriterCoverage ==
    BuildReturnedTransaction =>
        /\ refetchedPool # None
        /\ recheckSnapshot # None
        /\ ActiveUnsoldSum(recheckSnapshot[1]) >= params.quantity
        /\ buildResult.quantity = params.quantity

\* C26 witness: a transaction was built although the pool the build fetched has
\* totalAvailable below the quantity; the re-fetched active writers cover it.
C26_Witness ==
    /\ BuildReturnedTransaction
    /\ refetchedPool[1].totalAvailable < params.quantity
    /\ ActiveUnsoldSum(recheckSnapshot[1]) >= params.quantity

-----------------------------------------------------------------------------
\* C27: in every successful market-order build, whatever ledger updates interleave
\* with the builder's own reads, the writer positions attached as remaining accounts
\* are exactly the active positions of the snapshot the coverage assertion was
\* evaluated on, each once (so that the attached accounts cover the requested
\* quantity).
C27_AttachedAreTheAssertedPositions ==
    BuildReturnedTransaction =>
        LET attached == { buildResult.remainingAccounts[i].address :
                            i \in 1..Len(buildResult.remainingAccounts) }
            asserted == { recheckSnapshot[1][i].address :
                            i \in ActiveIndices(recheckSnapshot[1]) }
        IN  /\ attached = asserted
            /\ Cardinality(attached) = Len(buildResult.remainingAccounts)

-----------------------------------------------------------------------------
\* C28: every figure of one unwind preflight report is derived from a single
\* point-in-time ledger state: whatever ledger updates interleave with the call, the
\* position, vault, loan and slot data the report is built on are those of the
\* ledger state its collateral-reserve and wallet balances are read from.
C28_SinglePointInTime ==
    [][ (pc = "unwind_balances" /\ pc' = "unwind_done")
        => /\ unwindSnapshot[1].writerPosition = writerPosition[1]
           /\ unwindSnapshot[1].vault = vault[1]
           /\ unwindSnapshot[1].loans = FetchPoolLoansByMaker(loans)
           /\ unwindSnapshot[1].currentSlot = currentSlot
           /\ unwindResult'.summary.collateralVaultAvailable = collateralVaultBalance
           /\ unwindResult'.summary.walletFallbackAvailable = walletBalance ]_vars

\* C29 as stated: canUnwind = true is reported only for an active position, one
\* that is neither settled nor liquidated and has unsold quantity.
C29_NeverAcceptsInactivePosition ==
    UnwindAccepted =>
        /\ ~unwindSnapshot[1].writerPosition.isSettled
        /\ ~unwindSnapshot[1].writerPosition.isLiquidated
        /\ unwindSnapshot[1].writerPosition.unsoldQty > 0

\* C29, amended: canUnwind = true is reported only for a position with unsold
\* quantity, of which the unwind takes at most all; isSettled and isLiquidated
\* are not looked at.
C29_AcceptsOnUnsoldQuantity ==
    UnwindAccepted =>
        /\ unwindSnapshot[1].writerPosition.unsoldQty > 0
        /\ params.unwindQty <= unwindSnapshot[1].writerPosition.unsoldQty

C29_Witness ==
    /\ UnwindAccepted
    /\ unwindSnapshot[1].writerPosition.isLiquidated
    /\ unwindSnapshot[1].writerPosition.unsoldQty > 0

\* C30 as stated: for the same quotedPremiumTotal and slippage-buffer arguments,
\* no buffer argument included, the premium.maxPremiumAmount the buy preflight
\* reports equals the premiumAmount the market-order build puts in the request,
\* which is quotedPremiumTotal + buffer with a buffer of 500_000 when none is given.
C30_PreflightCapEqualsBuildCap ==
    BuildReturnedTransaction =>
        /\ preflight.kind = "report"
        /\ preflight.premium # None
        /\ preflight.premium[1].maxPremiumAmount = buildResult.premiumAmount
        /\ buildResult.premiumAmount =
               params.quotedPremiumTotal + NormalizeMarketOrderSlippageBuffer(params)

====
